---------------------------- MODULE Spec2Model ----------------------------
(***************************************************************************)
(* A model of the Prometheus trading bot: the control loop of              *)
(* TradingBot.run, one trading cycle (TradingBot._trading_cycle), the      *)
(* translation of a signal into orders (TradingBot._execute_signal), the   *)
(* brokerage client's rate limiter and order calls (AlpacaClient) and the  *)
(* data provider's cache (DataProvider.get_bars).                          *)
(*                                                                         *)
(* Conventions.  Symbols and strategies are numbered 1..N in the order of  *)
(* the configured lists.  Python's None and the number 0 are both falsy    *)
(* and the code tests prices and order ids only by truthiness, so a        *)
(* missing price, stop-loss or order id is written 0.  Money is in whole   *)
(* units; the risk fraction is RiskPct / 100, and the arithmetic is the    *)
(* exact one (no floating-point rounding).                                 *)
(***************************************************************************)
EXTENDS Integers, Sequences, FiniteSets, TLC

(***************************************************************************)
(* Bounds of the model                                                     *)
(***************************************************************************)
\* number of configured symbols (len(self.symbols))
NumSymbols == 2
\* number of configured strategies (len(self.strategies))
NumStrategies == 2
\* the configured max_positions
MaxPositions == 2

(***************************************************************************)
(* Program constants                                                       *)
(***************************************************************************)
\* risk_per_trade = 0.02, as a percentage
RiskPct == 2
\* AlpacaClient.min_request_interval = 0.2 s, in milliseconds
MinRequestIntervalMs == 200
\* cooldown_period = 20 s
CooldownPeriod == 20
\* the market-closed wait, asyncio.sleep(300)
MarketClosedSleep == 300
\* DataProvider.cache_duration = 5 minutes, in seconds
CacheDuration == 300

Symbols == 1..NumSymbols
Strategies == 1..NumStrategies
\* what the brokerage may hold: the tracked symbols and one untracked (0)
Universe == 0..NumSymbols

\* equities the brokerage may report
Equities == {10000}
\* signal prices (0: missing)
Prices == {0, 100}
\* signal stop-loss prices (0: missing)
Stops == {0, 95, 100, 103}

VARIABLES
  \* ---- TradingBot
  is_running,         \* self.is_running
  positions,          \* self.positions: the symbols of the position snapshot
  account_info,       \* self.account_info
  pc,                 \* position of the single control flow in run()
  available_slots,    \* local of _trading_cycle
  symIdx,             \* index of the for-symbol loop
  stratIdx,           \* index of the for-strategy loop
  \* ---- AlpacaClient / DataProvider
  rlElapsed,          \* now - last_request_time >= min_request_interval is certain
  cache,              \* DataProvider.cache and cache_timestamps, per symbol
  \* ---- history of the current cycle (observations, not program state)
  slots0,             \* available_slots as computed at the start of the cycle
  refreshed,          \* outcomes of the refresh calls of the cycle just begun
  orderIds,           \* executions that returned an order id
  active,             \* a fetch, an analysis or an order call was made
  buysCur,            \* the symbol last bought, and its market buys so far
  step,               \* what the step just taken did in the cycle, if anything
  lastExec,           \* the _execute_signal call of the step just taken, if any
  \* ---- MarketDataFetcher (utils/data.py): one top-level get_bars call
  fpc,                \* position of the call: idle, feeds, returned
  fcall,              \* the arguments of the get_bars invocation in progress
  feedIdx,            \* index of the for-feed loop
  tried,              \* the feeds requested so far by this invocation
  rounds,             \* the get_bars invocations so far (the recursion)
  attempt,            \* the feed attempt of the step just taken, if any
  fret,               \* what the top-level call returned
  events,             \* the events and requests of the step just taken, and
                      \* how often the call logged its success and its failure
  \* ---- DataProvider (data/provider.py) with its keys and its clock
  pcache,             \* self.cache: key -> stored object
  cache_timestamps,   \* self.cache_timestamps: key -> time of the fetch
  stats,              \* self.stats
  clock,              \* datetime.now(), in seconds
  objects,            \* the result objects get_bars has created, by identity
  call,               \* the DataProvider.get_bars call of the step just taken
  \* ---- MarketDataFetcher._standardize_dataframe on one table
  raw,                \* the table handed to the standardizer
  standardized,       \* what the standardizer returned
  \* ---- MAStrategy.analyze on one bar series
  closes,             \* data['close'], oldest bar first
  signal,             \* what analyze returned
  \* ---- MarketDataFetcher.get_bars, lines 61-114: the requests of one
  \* ---- invocation and the pages they return
  page,               \* the feed loop: its params and the body just executed
  \* ---- AlpacaClient.retry_api_call (utils/api.py) on one unit of work
  retry               \* the loop: its counter, the calls, the waits, the return

traderVars == <<is_running, positions, account_info, pc, available_slots,
                symIdx, stratIdx, rlElapsed, cache, slots0, refreshed,
                orderIds, active,
                buysCur, step, lastExec>>

\* the history of the whole cycle
histVars == <<slots0, orderIds, active, buysCur>>

\* the components that are modelled on their own
fetcherVars == <<fpc, fcall, feedIdx, tried, rounds, attempt, fret, events>>
providerVars == <<pcache, cache_timestamps, stats, clock, objects, call>>
standardizerVars == <<raw, standardized>>
strategyVars == <<closes, signal>>
paginationVars == <<page>>
retryVars == <<retry>>
componentVars == <<fetcherVars, providerVars, standardizerVars, strategyVars,
                   paginationVars, retryVars>>

vars == <<traderVars, componentVars>>

(***************************************************************************)
(* Small helpers                                                           *)
(***************************************************************************)
Abs(x) == IF x < 0 THEN 0 - x ELSE x

Max(a, b) == IF a >= b THEN a ELSE b

\* account_info = {} (initially, and what get_account returns on an API error)
EmptyDict == [has |-> FALSE, equity |-> 0]

AccountDict(e) == [has |-> TRUE, equity |-> e]

\* AlpacaClient.get_account: the dictionary, or {} on an API error
GetAccount(ok, e) == IF ok THEN AccountDict(e) ELSE EmptyDict


\* AlpacaClient.list_positions: the positions, or [] on an API error
ListPositions(ok, held) == IF ok THEN held ELSE {}


\* float(self.account_info.get("equity", 0))
Equity(ai) == IF ai.has THEN ai.equity ELSE 0

(***************************************************************************)
(* AlpacaClient._rate_limit.  When elapsed < min_request_interval the code *)
(* runs `await time.sleep(...)`: time.sleep blocks for the remainder and   *)
(* returns None, and awaiting None raises TypeError before                 *)
(* last_request_time is updated.  `fast` is the timing of the call: it     *)
(* arrives less than min_request_interval after last_request_time.         *)
(***************************************************************************)
RateLimitRaises(elapsed, fast) == ~elapsed /\ fast

\* after a raise the interval has been slept out; after a pass
\* last_request_time = now
RateLimitAfter(elapsed, fast) == RateLimitRaises(elapsed, fast)

\* a sleep of `seconds` between two requests
AfterSleep(elapsed, seconds) == elapsed \/ seconds * 1000 >= MinRequestIntervalMs

\* one client call: "rate_limited" (TypeError out of _rate_limit, nothing is
\* sent), "accepted" (the API returned an object), "failed" (the API raised,
\* the client returns its empty value)
Outcome(elapsed, fast, ok) ==
  IF RateLimitRaises(elapsed, fast) THEN "rate_limited"
  ELSE IF ok THEN "accepted" ELSE "failed"


(***************************************************************************)
(* AlpacaClient.create_order and close_position: the request handed to    *)
(* the API and what became of it.                                          *)
(***************************************************************************)
\* params["stop_price"] is set only for a truthy stop_price on a stop order
StopPriceParam(type, stop_price) ==
  IF stop_price # 0 /\ type \in {"stop", "stop_limit"} THEN stop_price ELSE 0

CreateOrder(symbol, qty, side, type, time_in_force, stop_price, outcome) ==
  [op |-> "create_order", symbol |-> symbol, qty |-> qty, side |-> side,
   type |-> type, time_in_force |-> time_in_force,
   stop_price |-> StopPriceParam(type, stop_price), outcome |-> outcome]

ClosePosition(symbol, outcome) ==
  [op |-> "close_position", symbol |-> symbol, qty |-> 0, side |-> "",
   type |-> "", time_in_force |-> "", stop_price |-> 0, outcome |-> outcome]

\* the call reached the brokerage API (submit_order / close_position)
Submitted(c) == c.outcome # "rate_limited"

\* the client returned a non-empty order dictionary
Accepted(c) == c.outcome = "accepted"

(***************************************************************************)
(* TradingBot._execute_signal                                              *)
(***************************************************************************)
\* the signals a strategy may return (analyze is a capability: any of these)
Signals ==
  {[action |-> "buy", price |-> p, stop_loss |-> s] : p \in Prices, s \in Stops}
  \cup {[action |-> a, price |-> 100, stop_loss |-> 0] :
          a \in {"sell", "exit", "none", "hold"}}

\* action in ["buy", "sell", "exit"]
Actionable(action) == action \in {"buy", "sell", "exit"}

\* if not price or not stop_loss
MissingPriceOrStop(price, stop_loss) == price = 0 \/ stop_loss = 0

\* risk_per_share = abs(price - stop_loss)
RiskPerShare(price, stop_loss) == Abs(price - stop_loss)

\* risk_amount = equity * risk_per_trade, in hundredths
RiskAmount100(equity) == equity * RiskPct

\* a variant of Qty that rounds up instead of truncating
QtyRoundedUp(equity, price, stop_loss) ==
  (RiskAmount100(equity) + 100 * RiskPerShare(price, stop_loss) - 1)
    \div (100 * RiskPerShare(price, stop_loss))

\* qty = int(risk_amount / risk_per_share)
Qty(equity, price, stop_loss) ==
  RiskAmount100(equity) \div (100 * RiskPerShare(price, stop_loss))

\* a variant of BuyRejected without the check of the quantity
BuyRejectedNoQtyCheck(equity, price, stop_loss) ==
  \/ MissingPriceOrStop(price, stop_loss)
  \/ RiskPerShare(price, stop_loss) <= 0

\* the three local rejections of a buy signal, in the code's order
BuyRejected(equity, price, stop_loss) ==
  \/ MissingPriceOrStop(price, stop_loss)
  \/ RiskPerShare(price, stop_loss) <= 0
  \/ Qty(equity, price, stop_loss) <= 0

\* a variant of PlacesStop that does not look at the buy order
PlacesStopAlways(stop_loss, order) == stop_loss # 0

\* if stop_loss and order
PlacesStop(stop_loss, order) == stop_loss # 0 /\ Accepted(order)

\* order.get("id") if order else None: k names the k-th call's order
OrderIdOf(order, k) == IF Accepted(order) THEN k ELSE 0

\* nothing was done: return None
NoExecution(elapsed) == [calls |-> <<>>, ret |-> 0, elapsed |-> elapsed]

ExecuteBuy(symbol, sig, equity, elapsed, f1, ok1, f2, ok2) ==
  LET qty == Qty(equity, sig.price, sig.stop_loss)
      o1  == Outcome(elapsed, f1, ok1)
      e1  == RateLimitAfter(elapsed, f1)
      buy == CreateOrder(symbol, qty, "buy", "market", "day", 0, o1)
      o2  == Outcome(e1, f2, ok2)
      e2  == RateLimitAfter(e1, f2)
      stp == CreateOrder(symbol, qty, "sell", "stop", "gtc", sig.stop_loss, o2)
  IN  IF BuyRejected(equity, sig.price, sig.stop_loss) THEN NoExecution(elapsed)
      ELSE IF o1 = "rate_limited"
        \* TypeError out of the first create_order, caught at line 266
        THEN [calls |-> <<buy>>, ret |-> 0, elapsed |-> e1]
      ELSE IF ~PlacesStop(sig.stop_loss, buy)
        THEN [calls |-> <<buy>>, ret |-> OrderIdOf(buy, 1), elapsed |-> e1]
      ELSE IF o2 = "rate_limited"
        \* TypeError out of the second create_order, caught at line 266
        THEN [calls |-> <<buy, stp>>, ret |-> 0, elapsed |-> e2]
      ELSE [calls |-> <<buy, stp>>, ret |-> OrderIdOf(buy, 1), elapsed |-> e2]

\* a variant of ExecuteClose that sells one share with a sized market order
ExecuteCloseBySelling(symbol, elapsed, f1, ok1) ==
  LET o1 == Outcome(elapsed, f1, ok1)
      e1 == RateLimitAfter(elapsed, f1)
      sl == CreateOrder(symbol, 1, "sell", "market", "day", 0, o1)
  IN  [calls |-> <<sl>>, ret |-> OrderIdOf(sl, 1), elapsed |-> e1]

ExecuteClose(symbol, elapsed, f1, ok1) ==
  LET o1 == Outcome(elapsed, f1, ok1)
      e1 == RateLimitAfter(elapsed, f1)
      cl == ClosePosition(symbol, o1)
  IN  IF o1 = "rate_limited"
        THEN [calls |-> <<cl>>, ret |-> 0, elapsed |-> e1]
        ELSE [calls |-> <<cl>>, ret |-> OrderIdOf(cl, 1), elapsed |-> e1]

ExecuteSignal(symbol, sig, equity, elapsed, f1, ok1, f2, ok2) ==
  IF ~Actionable(sig.action) THEN NoExecution(elapsed)
  ELSE IF sig.action = "buy"
    THEN ExecuteBuy(symbol, sig, equity, elapsed, f1, ok1, f2, ok2)
    ELSE ExecuteClose(symbol, elapsed, f1, ok1)

\* every way one _execute_signal call can go, over the timing of its client
\* calls and the brokerage's answers
Executions(symbol, sig, equity, elapsed) ==
  {ExecuteSignal(symbol, sig, equity, elapsed, f1, ok1, f2, ok2) :
     f1 \in BOOLEAN, ok1 \in BOOLEAN, f2 \in BOOLEAN, ok2 \in BOOLEAN}

(***************************************************************************)
(* TradingBot._update_account_info and _update_positions.  A TypeError out *)
(* of the rate limiter is caught by the method and leaves the snapshot as  *)
(* it was; an API error makes the client return {} or [], which then       *)
(* replaces the snapshot.                                                  *)
(***************************************************************************)
\* an account refresh that keeps the old dictionary when the new one is {}
UpdateAccountInfoKeepsOnEmpty(old, elapsed, fast, acct) ==
  [val     |-> IF RateLimitRaises(elapsed, fast) \/ ~acct.has THEN old
               ELSE acct,
   elapsed |-> RateLimitAfter(elapsed, fast)]

\* _update_account_info: self.account_info = account of what get_account
\* returned; left alone when the call raised
UpdateAccountInfo(old, elapsed, fast, acct) ==
  [val     |-> IF RateLimitRaises(elapsed, fast) THEN old ELSE acct,
   elapsed |-> RateLimitAfter(elapsed, fast)]

\* _update_positions: self.positions = {p["symbol"]: p for p in positions}
\* of what list_positions returned; left alone when the call raised
UpdatePositions(old, elapsed, fast, ok, held) ==
  [val     |-> IF RateLimitRaises(elapsed, fast) THEN old
               ELSE ListPositions(ok, held),
   elapsed |-> RateLimitAfter(elapsed, fast)]

\* no refresh yet
NotRefreshed == [account |-> "", positions |-> ""]

\* await self._update_account_info(); await self._update_positions():
\* every result the two calls can have
Refresh(acct0, held0, elapsed, f1, ok1, e, f2, ok2, held) ==
  LET a == UpdateAccountInfo(acct0, elapsed, f1, GetAccount(ok1, e))
      p == UpdatePositions(held0, a.elapsed, f2, ok2, held)
  IN  [account_info |-> a.val, positions |-> p.val, elapsed |-> p.elapsed,
       outcomes |-> [account |-> Outcome(elapsed, f1, ok1),
                     positions |-> Outcome(a.elapsed, f2, ok2)]]

Refreshes(acct0, held0, elapsed) ==
  {Refresh(acct0, held0, elapsed, f1, ok1, e, f2, ok2, held) :
     f1 \in BOOLEAN, ok1 \in BOOLEAN, e \in Equities,
     f2 \in BOOLEAN, ok2 \in BOOLEAN, held \in SUBSET Universe}

\* a market check that lets the TypeError of the rate limiter through
PropagatesRateLimit(outcome) == outcome = "rate_limited"

\* does a failed get_clock leave _check_market_status as an exception:
\* no, except Exception returns False
Propagates(outcome) == FALSE

\* a market check that takes a failed clock query for an open market
IsOpenUnlessClosed(outcome, open) == outcome # "accepted" \/ open

\* clock.get("is_open", False) of the dictionary get_clock returned, False
\* from the except clause
IsOpen(outcome, open) == outcome = "accepted" /\ open

\* _check_market_status: False when get_clock raises out of the rate limiter
\* (except Exception) or when the API failed ({"is_open": False})
MarketCheck(elapsed, fast, ok, open) ==
  LET outcome == Outcome(elapsed, fast, ok)
  IN  [is_open |-> IsOpen(outcome, open),
       elapsed |-> RateLimitAfter(elapsed, fast),
       outcome |-> IF outcome = "accepted"
                     THEN (IF open THEN "open" ELSE "closed")
                     ELSE outcome,
       raised  |-> Propagates(outcome)]

MarketChecks(elapsed) ==
  {MarketCheck(elapsed, fast, ok, open) :
     fast \in BOOLEAN, ok \in BOOLEAN, open \in BOOLEAN}

\* a variant of AvailableSlots without the clamp at zero
AvailableSlotsUnclamped(max_positions, current_positions) ==
  max_positions - current_positions

\* available_slots = max(0, self.max_positions - current_positions)
AvailableSlots(max_positions, current_positions) ==
  Max(0, max_positions - current_positions)

\* a variant of SkipSymbol that never skips
SkipSymbolNever(symbol, held) == FALSE

\* if symbol in self.positions: continue
SkipSymbol(symbol, held) == symbol \in held

(***************************************************************************)
(* DataProvider.get_bars for one symbol, as _fetch_data_for_symbol calls   *)
(* it (the key is the symbol, the bot's timeframe and limit 100).  The     *)
(* cache holds for a symbol either the stored table ("bars", or "empty"),  *)
(* an entry not yet found older than cache_duration, or "miss": no entry,  *)
(* or one past cache_duration (get_bars treats the two alike).  `valid` is *)
(* the clock's answer at the time of the call for an entry not yet found   *)
(* too old.  The client builds every table with all the columns and at     *)
(* least one row; DataProvider._clean_and_prepare_data drops the rows that *)
(* have a NaN, which leaves the table "empty" when every row has one.      *)
(***************************************************************************)
\* self.time_frame: the --timeframe option, "1Min" unless given
TimeFrame == "1Min"

\* limit=100  # Last 100 bars
FetchLimit == 100

\* the call _fetch_data_for_symbol makes for a symbol
FetchRequest(symbol) ==
  [via |-> "DataProvider.get_bars", symbols |-> <<symbol>>,
   timeframe |-> TimeFrame, limit |-> FetchLimit]

\* MAStrategy.get_required_data() for a strategy of the given long_window
RequiredData(long_window) ==
  [timeframe |-> "1H", lookback_bars |-> long_window + 10,
   min_required_bars |-> long_window + 1]

\* cache_key in self.cache and self._is_cache_valid(cache_key)
CacheHit(entry, valid) == entry # "miss" /\ valid

\* the entry once it is past cache_duration, or when nothing is stored
Aged(entry) == "miss"

\* what the fetch hands to the cycle: "none" (None), "empty" (a table
\* without rows) or "bars"; api is what the brokerage had for the symbol:
\* "none" (an error, or no bar), "empty" (bars that all hold a NaN) or "bars"
FetchData(entry, valid, elapsed, fast, api) ==
  IF CacheHit(entry, valid)
    THEN [data |-> entry, entry |-> entry, elapsed |-> elapsed]
  ELSE IF RateLimitRaises(elapsed, fast)
    \* TypeError caught in DataProvider.get_bars: returns {}
    THEN [data |-> "none", entry |-> Aged(entry),
          elapsed |-> RateLimitAfter(elapsed, fast)]
  ELSE IF api = "none"
    \* {} from the client: nothing is cached
    THEN [data |-> "none", entry |-> Aged(entry),
          elapsed |-> RateLimitAfter(elapsed, fast)]
  ELSE [data |-> api, entry |-> api, elapsed |-> RateLimitAfter(elapsed, fast)]

Fetches(entry, elapsed) ==
  {FetchData(entry, valid, elapsed, fast, api) :
     valid \in BOOLEAN, fast \in BOOLEAN, api \in {"none", "empty", "bars"}}

\* the skip test without its data.empty half
NoDataOnlyNone(data) == data = "none"

\* if data is None or data.empty: skip
NoData(data) == data \in {"none", "empty"}

(***************************************************************************)
(* Control flow of the two loops of _trading_cycle                         *)
(***************************************************************************)
\* the next iteration after the body of the strategy loop has completed
NextPoint(si, sti) ==
  IF sti < NumStrategies
    THEN [pc |-> "strategy", symIdx |-> si, stratIdx |-> sti + 1]
    ELSE [pc |-> "symbol", symIdx |-> si + 1, stratIdx |-> 1]

\* a return that takes run() straight back to the top of its loop
ReturnPointSkipsCooldown(si, sti) ==
  [pc |-> "loop", symIdx |-> si, stratIdx |-> sti]

\* `return` out of _trading_cycle: run() goes on to the cooldown
ReturnPoint(si, sti) == [pc |-> "cooldown", symIdx |-> si, stratIdx |-> sti]

\* a variant of AfterAnalyzeRaise in which the exception ends the cycle
AfterAnalyzeRaiseAborts(si, sti) == ReturnPoint(si, sti)

\* except Exception around the body of the strategy loop: log, next strategy
AfterAnalyzeRaise(si, sti) == NextPoint(si, sti)

\* if order_id: available_slots -= 1
SlotsAfter(slots, order_id) == IF order_id # 0 THEN slots - 1 ELSE slots

\* a variant of AfterExecute that never returns early
AfterExecuteNeverReturns(si, sti, slots, order_id) == NextPoint(si, sti)

\* if order_id: ... if available_slots <= 0: return
AfterExecute(si, sti, slots, order_id) ==
  IF order_id # 0 /\ SlotsAfter(slots, order_id) <= 0
    THEN ReturnPoint(si, sti)
    ELSE NextPoint(si, sti)

(***************************************************************************)
(* The record of one _execute_signal call                                  *)
(***************************************************************************)
NullExec ==
  [sym |-> 0, strat |-> 0, action |-> "", price |-> 0, stop_loss |-> 0,
   equity |-> 0, slots |-> 0, calls |-> <<>>, ret |-> 0]

ExecRecord(symbol, strategy, sig, equity, slots, res) ==
  [sym |-> symbol, strat |-> strategy, action |-> sig.action,
   price |-> sig.price, stop_loss |-> sig.stop_loss, equity |-> equity,
   slots |-> slots, calls |-> res.calls, ret |-> res.ret]

IsMarketBuy(c) == c.op = "create_order" /\ c.side = "buy" /\ c.type = "market"

IsStopOrder(c) == c.op = "create_order" /\ c.type = "stop"

\* market buys of a call sequence that reached the brokerage
BuysIn(calls) ==
  Cardinality({k \in DOMAIN calls : IsMarketBuy(calls[k]) /\ Submitted(calls[k])})

\* market buys for `symbol` so far in the cycle, given the last symbol bought
BuysAfter(cur, symbol, calls) ==
  IF BuysIn(calls) = 0 THEN cur
  ELSE [sym |-> symbol,
        n   |-> (IF cur.sym = symbol THEN cur.n ELSE 0) + BuysIn(calls)]

NoStep == [kind |-> "", sym |-> 0, strat |-> 0, data |-> ""]

Step(kind, symbol, strategy) ==
  [kind |-> kind, sym |-> symbol, strat |-> strategy, data |-> ""]

\* the fetch of a symbol and what it handed to the cycle
MarketStep(outcome) ==
  [kind |-> "market", sym |-> 0, strat |-> 0, data |-> outcome]

FetchStep(symbol, data) == [kind |-> "fetch", sym |-> symbol, strat |-> 0, data |-> data]

\* a step outside the loops of the cycle
Quiet ==
  /\ step' = NoStep
  /\ lastExec' = NullExec
  /\ refreshed' = NotRefreshed

\* the fetch for a symbol: the outcome of the account refresh of this
\* cycle stays on record until the analysis that follows
KeepAccountOutcome ==
  /\ refreshed' = [refreshed EXCEPT !.positions = ""]

HistReset ==
  /\ orderIds' = 0
  /\ active' = FALSE
  /\ buysCur' = [sym |-> 0, n |-> 0]

(***************************************************************************)
(* The components modelled on their own, at rest: a MarketDataFetcher that *)
(* has not been called, a DataProvider just constructed, no table at the   *)
(* standardizer.  The control loop leaves them so.                         *)
(***************************************************************************)
\* no get_bars invocation
NoCall == [lookback_bars |-> 0, timeframe |-> "", min_required_bars |-> 0]

\* no feed attempt in the step just taken
NoAttempt ==
  [feed |-> "", timeframe |-> "", lookback_bars |-> 0, requests |-> 0,
   initial |-> "", initial_n |-> 0, more |-> "", combined |-> 0, bars |-> 0,
   verdict |-> ""]

\* get_bars has not returned
Pending == [kind |-> "pending", bars |-> 0, feed |-> "", timeframe |-> ""]

\* nothing logged
NoEvents == [last |-> <<>>, success |-> 0, complete_failure |-> 0]

FetcherIdle ==
  /\ fpc = "idle"
  /\ fcall = NoCall
  /\ feedIdx = 1
  /\ tried = <<>>
  /\ rounds = <<>>
  /\ attempt = NoAttempt
  /\ fret = Pending
  /\ events = NoEvents

\* no DataProvider.get_bars call in the step just taken
NoProviderCall ==
  [op |-> "", result |-> "",
   symbols |-> <<>>, timeframe |-> "", limit |-> 0, key |-> <<>>,
   had |-> FALSE, age |-> 0, stored |-> 0, hit |-> FALSE, fetched |-> FALSE,
   yielded |-> FALSE, ret |-> 0, hits0 |-> 0, at |-> 0]

\* DataProvider.__init__
ProviderIdle ==
  /\ pcache = <<>>
  /\ cache_timestamps = <<>>
  /\ stats = [requests |-> 0, cache_hits |-> 0, failed_requests |-> 0]
  /\ clock = 0
  /\ objects = <<>>
  /\ call = NoProviderCall

\* no table
NoTable == [index |-> "", columns |-> FALSE, rows |-> <<>>]

\* the standardizer has not returned
NotStandardized ==
  [done |-> FALSE, failed |-> FALSE, rows |-> <<>>, input |-> NoTable]

StandardizerIdle ==
  /\ raw = NoTable
  /\ standardized = NotStandardized

\* analyze has not returned
NotAnalyzed ==
  [done |-> FALSE, raised |-> FALSE, action |-> "", has_price |-> FALSE,
   price |-> 0, has_stop |-> FALSE, stop_loss100 |-> 0]

StrategyIdle ==
  /\ closes = <<>>
  /\ signal = NotAnalyzed

\* no request parameters; a key that is absent is written "" or 0
NoParams == [limit |-> 0, timeframe |-> "", feed |-> "", end |-> 0]

\* get_bars was not entered
NoPage ==
  [pc |-> "idle", lookback_bars |-> 0, timeframe |-> "", feedIdx |-> 1,
   params |-> NoParams, feed |-> "", sent |-> <<>>, initial |-> <<>>, more |-> "", more_rows |-> <<>>,
   bars_df |-> <<>>, raised |-> FALSE]

PaginationIdle == page = NoPage

\* retry_api_call was not called
NoRetry ==
  [pc |-> "idle", max_retries |-> 0, retry_delay_base |-> 0,
   retry_count |-> 0, outcomes |-> <<>>, waits |-> <<>>,
   ret |-> "pending", result |-> 0, expected |-> 0]

RetryIdle == retry = NoRetry

(***************************************************************************)
(* Init: the state after TradingBot.__init__.  run_bot always configures   *)
(* market_hours_only = True (its flag is store_true with default True).    *)
(***************************************************************************)
TraderInit ==
  /\ is_running = FALSE
  /\ positions = {}
  /\ account_info = EmptyDict
  /\ pc = "start"
  /\ available_slots = 0
  /\ symIdx = 1
  /\ stratIdx = 1
  /\ rlElapsed = TRUE
  /\ cache = [s \in Symbols |-> "miss"]
  /\ slots0 = 0
  /\ refreshed = NotRefreshed
  /\ orderIds = 0
  /\ active = FALSE
  /\ buysCur = [sym |-> 0, n |-> 0]
  /\ step = NoStep
  /\ lastExec = NullExec

Init ==
  /\ TraderInit
  /\ FetcherIdle
  /\ ProviderIdle
  /\ StandardizerIdle
  /\ StrategyIdle
  /\ PaginationIdle
  /\ RetryIdle

(***************************************************************************)
(* Actions                                                                 *)
(***************************************************************************)
\* a loop that never tests the flag
WhileTrue(running) == TRUE

\* while self.is_running
WhileRunning(running) == running

\* run(): is_running = True and the initial updates, up to the loop
Run ==
  /\ pc = "start"
  /\ \E r \in Refreshes(account_info, positions, rlElapsed) :
       /\ account_info' = r.account_info
       /\ positions' = r.positions
       /\ rlElapsed' = r.elapsed
  /\ is_running' = TRUE
  /\ pc' = "loop"
  /\ Quiet
  /\ UNCHANGED <<available_slots, symIdx, stratIdx, cache>>
  /\ UNCHANGED histVars
  /\ UNCHANGED componentVars

\* _handle_exit: SIGINT / SIGTERM
HandleExit ==
  /\ pc # "done"
  /\ is_running
  /\ is_running' = FALSE
  /\ UNCHANGED <<positions, account_info, pc, available_slots, symIdx,
                 stratIdx, rlElapsed, cache, step, lastExec, refreshed>>
  /\ UNCHANGED histVars
  /\ UNCHANGED componentVars

\* while self.is_running: false, the loop is left for the finally clause
LoopExit ==
  /\ pc = "loop"
  /\ ~WhileRunning(is_running)
  /\ pc' = "cleanup"
  /\ Quiet
  /\ UNCHANGED <<is_running, positions, account_info, available_slots, symIdx,
                 stratIdx, rlElapsed, cache>>
  /\ UNCHANGED histVars
  /\ UNCHANGED componentVars

\* the top of the loop: _check_market_status
CheckMarketStatus ==
  /\ pc = "loop"
  /\ WhileRunning(is_running)
  /\ \E r \in MarketChecks(rlElapsed) :
       /\ rlElapsed' = r.elapsed
       /\ pc' = IF r.raised THEN "cleanup"
                ELSE IF r.is_open THEN "cycle" ELSE "closed_sleep"
       /\ step' = MarketStep(r.outcome)
  /\ lastExec' = NullExec
  /\ refreshed' = NotRefreshed
  /\ UNCHANGED <<is_running, positions, account_info, available_slots, symIdx,
                 stratIdx, cache>>
  /\ UNCHANGED histVars
  /\ UNCHANGED componentVars

\* market closed: asyncio.sleep(300); continue.  Every entry of the cache
\* is older than cache_duration afterwards
ClosedSleep ==
  /\ pc = "closed_sleep"
  /\ rlElapsed' = AfterSleep(rlElapsed, MarketClosedSleep)
  /\ cache' = [s \in Symbols |->
                 IF MarketClosedSleep >= CacheDuration THEN Aged(cache[s])
                                                       ELSE cache[s]]
  /\ pc' = "loop"
  /\ Quiet
  /\ UNCHANGED <<is_running, positions, account_info, available_slots, symIdx,
                 stratIdx>>
  /\ UNCHANGED histVars
  /\ UNCHANGED componentVars

\* _trading_cycle, lines 127-139: the refresh and available_slots
TradingCycleBegin ==
  /\ pc = "cycle"
  /\ \E r \in Refreshes(account_info, positions, rlElapsed) :
       LET slots == AvailableSlots(MaxPositions, Cardinality(r.positions))
       IN  /\ account_info' = r.account_info
           /\ positions' = r.positions
           /\ rlElapsed' = r.elapsed
           /\ available_slots' = slots
           /\ slots0' = slots
           /\ refreshed' = r.outcomes
           /\ pc' = IF slots = 0 THEN "cooldown" ELSE "symbol"
  /\ symIdx' = 1
  /\ stratIdx' = 1
  /\ HistReset
  /\ step' = NoStep
  /\ lastExec' = NullExec
  /\ UNCHANGED <<is_running, cache>>
  /\ UNCHANGED componentVars

\* the symbol loop is exhausted: "Trading cycle completed"
CycleCompleted ==
  /\ pc = "symbol"
  /\ symIdx > NumSymbols
  /\ pc' = "cooldown"
  /\ Quiet
  /\ UNCHANGED <<is_running, positions, account_info, available_slots, symIdx,
                 stratIdx, rlElapsed, cache>>
  /\ UNCHANGED histVars
  /\ UNCHANGED componentVars

\* one iteration of the symbol loop for a symbol of the position snapshot
SkipHeldSymbol ==
  /\ pc = "symbol"
  /\ symIdx <= NumSymbols
  /\ SkipSymbol(symIdx, positions)
  /\ symIdx' = symIdx + 1
  /\ step' = NoStep
  /\ lastExec' = NullExec
  /\ refreshed' = NotRefreshed
  /\ UNCHANGED <<is_running, positions, account_info, pc, available_slots,
                 stratIdx, rlElapsed, cache>>
  /\ UNCHANGED histVars
  /\ UNCHANGED componentVars

\* one iteration of the symbol loop, up to the strategy loop
ProcessSymbol ==
  /\ pc = "symbol"
  /\ symIdx <= NumSymbols
  /\ ~SkipSymbol(symIdx, positions)
  /\ \E r \in Fetches(cache[symIdx], rlElapsed) :
       /\  /\ cache' = [cache EXCEPT ![symIdx] = r.entry]
           /\ rlElapsed' = r.elapsed
           /\ pc' = IF NoData(r.data) THEN "symbol" ELSE "strategy"
           /\ symIdx' = IF NoData(r.data) THEN symIdx + 1 ELSE symIdx
           /\ step' = FetchStep(symIdx, r.data)
  /\ stratIdx' = 1
  /\ active' = TRUE
  /\ lastExec' = NullExec
  /\ UNCHANGED <<is_running, positions, account_info, available_slots>>
  /\ KeepAccountOutcome
  /\ UNCHANGED <<slots0, orderIds, buysCur>>
  /\ UNCHANGED componentVars

\* the body of the strategy loop when analyze raises
AnalyzeRaises ==
  /\ pc = "strategy"
  /\ LET nxt == AfterAnalyzeRaise(symIdx, stratIdx)
     IN  /\ pc' = nxt.pc
         /\ symIdx' = nxt.symIdx
         /\ stratIdx' = nxt.stratIdx
  /\ active' = TRUE
  /\ step' = Step("raise", symIdx, stratIdx)
  /\ lastExec' = NullExec
  /\ UNCHANGED <<is_running, positions, account_info, available_slots,
                 rlElapsed, cache>>
  /\ refreshed' = NotRefreshed
  /\ UNCHANGED <<slots0, orderIds, buysCur>>
  /\ UNCHANGED componentVars

\* the body of the strategy loop when analyze returns None
AnalyzeNone ==
  /\ pc = "strategy"
  /\ LET nxt == NextPoint(symIdx, stratIdx)
     IN  /\ pc' = nxt.pc
         /\ symIdx' = nxt.symIdx
         /\ stratIdx' = nxt.stratIdx
  /\ active' = TRUE
  /\ step' = Step("none", symIdx, stratIdx)
  /\ lastExec' = NullExec
  /\ UNCHANGED <<is_running, positions, account_info, available_slots,
                 rlElapsed, cache>>
  /\ refreshed' = NotRefreshed
  /\ UNCHANGED <<slots0, orderIds, buysCur>>
  /\ UNCHANGED componentVars

\* the body of the strategy loop when analyze returns a signal:
\* _execute_signal and the slot accounting
ApplyStrategy ==
  /\ pc = "strategy"
  /\ \E sig \in Signals :
     \E res \in Executions(symIdx, sig, Equity(account_info), rlElapsed) :
       LET equity == Equity(account_info)
           nxt == AfterExecute(symIdx, stratIdx, available_slots, res.ret)
       IN  /\ rlElapsed' = res.elapsed
           /\ available_slots' = SlotsAfter(available_slots, res.ret)
           /\ pc' = nxt.pc
           /\ symIdx' = nxt.symIdx
           /\ stratIdx' = nxt.stratIdx
           /\ orderIds' = IF res.ret # 0 THEN orderIds + 1 ELSE orderIds
           /\ buysCur' = BuysAfter(buysCur, symIdx, res.calls)
           /\ lastExec' = ExecRecord(symIdx, stratIdx, sig, equity,
                                     available_slots, res)
  /\ active' = TRUE
  /\ step' = Step("execute", symIdx, stratIdx)
  /\ UNCHANGED <<is_running, positions, account_info, cache>>
  /\ refreshed' = NotRefreshed
  /\ UNCHANGED slots0
  /\ UNCHANGED componentVars

\* asyncio.sleep(self.cooldown_period)
Cooldown ==
  /\ pc = "cooldown"
  /\ rlElapsed' = AfterSleep(rlElapsed, CooldownPeriod)
  /\ pc' = "loop"
  /\ Quiet
  /\ UNCHANGED <<is_running, positions, account_info, available_slots, symIdx,
                 stratIdx, cache>>
  /\ UNCHANGED histVars
  /\ UNCHANGED componentVars

\* _cleanup: DataProvider.close calls the coroutine function clear_cache
\* without awaiting it, so its body never runs and the cache is left as is
Cleanup ==
  /\ pc = "cleanup"
  /\ pc' = "done"
  /\ Quiet
  /\ UNCHANGED <<is_running, positions, account_info, available_slots, symIdx,
                 stratIdx, rlElapsed, cache>>
  /\ UNCHANGED histVars
  /\ UNCHANGED componentVars

Next ==
  \/ Run
  \/ HandleExit
  \/ LoopExit
  \/ CheckMarketStatus
  \/ ClosedSleep
  \/ TradingCycleBegin
  \/ CycleCompleted
  \/ SkipHeldSymbol
  \/ ProcessSymbol
  \/ AnalyzeRaises
  \/ AnalyzeNone
  \/ ApplyStrategy
  \/ Cooldown
  \/ Cleanup

Spec == Init /\ [][Next]_vars

\* the steps of the coroutine run(): everything but the signal handler
ControlFlow ==
  \/ Run
  \/ LoopExit
  \/ CheckMarketStatus
  \/ ClosedSleep
  \/ TradingCycleBegin
  \/ CycleCompleted
  \/ SkipHeldSymbol
  \/ ProcessSymbol
  \/ AnalyzeRaises
  \/ AnalyzeNone
  \/ ApplyStrategy
  \/ Cooldown
  \/ Cleanup

\* the event loop keeps running the coroutine: every await returns (the
\* client calls are synchronous, the sleeps are finite)
FairSpec == Spec /\ WF_vars(ControlFlow)

(***************************************************************************)
(* Properties of the trading cycle                                         *)
(***************************************************************************)
\* positions and slots0 are those of the cycle in progress or just ended
InCycle == pc \in {"symbol", "strategy", "cooldown"}

\* the loops of the cycle are still running
InLoops == pc \in {"symbol", "strategy"}

\* the step just taken was an _execute_signal call for this action
Executed(actions) == step.kind = "execute" /\ lastExec.action \in actions

\* C1: in every cycle the number of signal executions that returned an order
\* id never exceeds available_slots = max(0, max_positions - number of
\* positions of the snapshot refreshed at the start of the cycle), and as
\* soon as that many orders have resulted the loops of the cycle are over.
C1_OrdersWithinSlots ==
  InCycle =>
    LET n == Cardinality(positions)
        limit == IF MaxPositions - n > 0 THEN MaxPositions - n ELSE 0
    IN  /\ slots0 = limit
        /\ orderIds <= limit
        /\ available_slots = limit - orderIds
        /\ (orderIds >= limit => ~InLoops)

\* a cycle that had two slots or more and ended early, on its last slot
C1_Witness ==
  /\ pc = "cooldown"
  /\ slots0 >= 2
  /\ orderIds = slots0
  /\ symIdx < NumSymbols

\* C2: when the refreshed position count is at least max_positions, the
\* cycle makes no fetch, no analysis and no order call, whatever the
\* strategies would signal, and control is at the cooldown wait.
C2_NoActivityAtCap ==
  (InCycle /\ Cardinality(positions) >= MaxPositions) =>
    /\ ~active
    /\ orderIds = 0
    /\ step = NoStep
    /\ pc = "cooldown"

\* a cycle that found more positions than max_positions
C2_Witness ==
  /\ pc = "cooldown"
  /\ slots0 = 0
  /\ Cardinality(positions) > MaxPositions
  /\ ~active

\* C3: when analyze raises, the cycle is not aborted: control is at the next
\* strategy for the same symbol, or past the last strategy at the next
\* symbol, with the slots untouched, exactly where a strategy that returned
\* no signal leaves it.
C3_RaiseDoesNotAbort ==
  step.kind = "raise" =>
    /\ available_slots = slots0 - orderIds
    /\ available_slots > 0
    /\ \/ /\ step.strat < NumStrategies
          /\ pc = "strategy"
          /\ symIdx = step.sym
          /\ stratIdx = step.strat + 1
       \/ /\ step.strat = NumStrategies
          /\ pc = "symbol"
          /\ symIdx = step.sym + 1

\* the last strategy raised for a symbol that is not the last one
C3_Witness ==
  /\ step.kind = "raise"
  /\ step.strat = NumStrategies
  /\ pc = "symbol"
  /\ symIdx <= NumSymbols
  /\ orderIds > 0

\* C4: within one cycle at most one market buy is submitted for any symbol,
\* however many strategies emit a buy signal for it.
C4_AtMostOneBuyPerSymbol == buysCur.n <= 1

\* C5: every fetch, analysis, create_order and close_position call of a
\* cycle is for a symbol that is not in the cycle's position snapshot.
C5_HeldSymbolsUntouched ==
  /\ step.kind \in {"fetch", "raise", "none", "execute"} =>
       step.sym \notin positions
  /\ \A k \in DOMAIN lastExec.calls : lastExec.calls[k].symbol \notin positions

\* an order call for a symbol that follows a held, skipped symbol
C5_Witness ==
  /\ step.kind = "execute"
  /\ lastExec.calls # <<>>
  /\ \E h \in positions : h \in Symbols /\ h < step.sym

\* C6: the quantity of every market buy is floor((equity * risk_fraction) /
\* |entry - stop_loss|) for the equity of the current account snapshot, with
\* entry and stop-loss present and different; equity 10000, entry 100 and
\* stop 95 give 40.
C6_BuyQuantity ==
  \A k \in DOMAIN lastExec.calls :
    IsMarketBuy(lastExec.calls[k]) =>
      LET q == lastExec.calls[k].qty
          e == IF account_info.has THEN account_info.equity ELSE 0
          d == IF lastExec.price >= lastExec.stop_loss
                 THEN lastExec.price - lastExec.stop_loss
                 ELSE lastExec.stop_loss - lastExec.price
      IN  /\ lastExec.price # 0
          /\ lastExec.stop_loss # 0
          /\ d > 0
          /\ q * d * 100 <= e * RiskPct
          /\ (q + 1) * d * 100 > e * RiskPct
          /\ (e = 10000 /\ lastExec.price = 100 /\ lastExec.stop_loss = 95
                => q = 40)

\* the example of the specification, and a quotient that is not whole
C6_Witness ==
  /\ Executed({"buy"})
  /\ account_info = AccountDict(10000)
  /\ lastExec.price = 100
  /\ lastExec.stop_loss = 103
  /\ Len(lastExec.calls) = 2
  /\ lastExec.calls[1].qty = 66

\* the signal of the last execution is one the sizer must reject
RejectedLocally ==
  \/ lastExec.price = 0
  \/ lastExec.stop_loss = 0
  \/ lastExec.price = lastExec.stop_loss
  \/ lastExec.equity * RiskPct
       < 100 * Abs(lastExec.price - lastExec.stop_loss)

\* C7: a buy signal whose price or stop-loss is missing, whose price equals
\* its stop-loss, or whose quantity comes out <= 0 sends no order of any
\* kind, returns no order id, leaves available_slots as it was, and the
\* loops of the cycle go on.
C7_LocalRejection ==
  (Executed({"buy"}) /\ RejectedLocally) =>
    /\ lastExec.calls = <<>>
    /\ lastExec.ret = 0
    /\ available_slots = lastExec.slots
    /\ lastExec.equity = Equity(account_info)
    /\ InLoops

\* a buy signal with entry = stop, and equity that would buy shares
C7_Witness ==
  /\ Executed({"buy"})
  /\ lastExec.price = 100
  /\ lastExec.stop_loss = 100
  /\ lastExec.equity = 10000
  /\ pc = "strategy"

C9_AcceptedBuyIsReported ==
  (Executed({"buy"}) /\ lastExec.calls # <<>> /\ Accepted(lastExec.calls[1])) =>
    /\ lastExec.ret = 1
    /\ available_slots = lastExec.slots - 1

\* C10: a sell or exit signal makes exactly one close_position call for the
\* symbol and no create_order call, and an order id is reported only if the
\* brokerage returned an order for the close.
C10_SellExitCloses ==
  Executed({"sell", "exit"}) =>
    /\ Len(lastExec.calls) = 1
    /\ lastExec.calls[1].op = "close_position"
    /\ lastExec.calls[1].symbol = lastExec.sym
    /\ lastExec.calls[1].qty = 0
    /\ (lastExec.ret # 0 => Accepted(lastExec.calls[1]))

\* an exit signal whose close was accepted and reported
C10_Witness ==
  /\ Executed({"exit"})
  /\ lastExec.ret = 1
  /\ Accepted(lastExec.calls[1])
  /\ available_slots = lastExec.slots - 1

\* C16: a fetch that fails, raises or yields an empty table hands the cycle
\* None or an empty table; the cycle then moves to the next symbol without
\* an order call, and a strategy is only ever applied to the symbol whose
\* fetch has just handed the cycle a table with rows (stated of the steps of
\* the control flow; a signal handler running in between moves nothing).
C16_NoDataSkipsSymbol ==
  [][<<pc, symIdx, stratIdx>>' # <<pc, symIdx, stratIdx>> =>
       /\ (step'.kind = "fetch" /\ step'.data \in {"none", "empty"}) =>
            /\ pc' = "symbol"
            /\ symIdx' = step'.sym + 1
            /\ lastExec' = NullExec
            /\ UNCHANGED <<orderIds, buysCur, available_slots>>
       /\ (pc' = "strategy" /\ pc # "strategy") =>
            /\ step'.kind = "fetch"
            /\ step'.data = "bars"
            /\ symIdx' = step'.sym
       /\ step'.kind \in {"raise", "none", "execute"} =>
            /\ pc = "strategy"
            /\ step'.sym = symIdx
       /\ (InLoops /\ InLoops') => symIdx' >= symIdx]_vars

\* the first symbol's fetch yielded an empty table and the second symbol,
\* which is not held, is next
C16_Witness ==
  /\ step.kind = "fetch"
  /\ step.data = "empty"
  /\ step.sym = 1
  /\ pc = "symbol"
  /\ symIdx = 2
  /\ 2 \notin positions

(***************************************************************************)
(* Properties of the run loop                                              *)
(***************************************************************************)
\* the cycle is past its refresh
CycleRunning == pc \in {"cycle", "symbol", "strategy"}

\* C25: once the stop flag is set while run() is under way, run returns:
\* the loop is left only from its top and only with the flag set, so a
\* cycle in progress goes on to its end (the symbol loop exhausted, or the
\* slots used up) and to its cooldown; with the flag set no cycle starts at
\* the top of the loop; cleanup runs once, and run returns right after it.
C25_StopAtLoopTop ==
  /\ [][/\ (pc' = "cleanup" /\ pc # "cleanup") =>
              (pc = "loop" /\ ~is_running)
        /\ (pc = "loop" /\ ~is_running) => pc' \in {"loop", "cleanup"}
        /\ (CycleRunning /\ ~CycleRunning') =>
              /\ pc' = "cooldown"
              /\ \/ pc = "cycle" /\ available_slots' = 0
                 \/ pc = "symbol" /\ symIdx > NumSymbols
                 \/ /\ step'.kind = "execute"
                    /\ lastExec'.ret # 0
                    /\ available_slots' <= 0
        /\ (pc = "cooldown" /\ pc' # pc) => pc' = "loop"
        /\ (pc = "closed_sleep" /\ pc' # pc) => pc' = "loop"
        /\ (pc = "cleanup" /\ pc' # pc) => pc' = "done"
        /\ (pc' = "done" /\ pc # "done") => pc = "cleanup"
        /\ pc = "done" => UNCHANGED vars]_vars
  /\ (~is_running /\ pc # "start") ~> (pc = "done")

\* run has returned after a stop request, and its last cycle placed an order
C25_Witness ==
  /\ pc = "done"
  /\ ~is_running
  /\ active
  /\ orderIds >= 1

\* C26: once run has returned the data cache holds no entry and no entry
\* timestamp.
C26_CacheReleased == pc = "done" => \A s \in Symbols : cache[s] = "miss"

\* the outcomes of the market check that are not "open": the market is
\* closed, the clock query failed, or the rate limiter raised
NotOpen == {"closed", "failed", "rate_limited"}

\* C27: when the market check does not yield open (market closed, or the
\* clock query failed) the loop goes to its 300 s wait without a refresh
\* of account or positions, a fetch, an analysis or an order, and after
\* the wait it is at the top of the loop, where the stop flag and then the
\* market are checked before anything else.
C27_ClosedMarketOnlyWaits ==
  [][pc' # pc =>
       /\ (step'.kind = "market" /\ step'.data \in NotOpen) =>
            /\ pc = "loop" /\ pc' = "closed_sleep"
            /\ lastExec' = NullExec
            /\ UNCHANGED <<account_info, positions, cache, available_slots>>
            /\ UNCHANGED histVars
       /\ pc' = "closed_sleep" =>
            (step'.kind = "market" /\ step'.data \in NotOpen)
       /\ pc = "closed_sleep" =>
            /\ pc' = "loop"
            /\ rlElapsed' = AfterSleep(rlElapsed, MarketClosedSleep)
            /\ step' = NoStep /\ lastExec' = NullExec
            /\ UNCHANGED <<account_info, positions, available_slots>>
            /\ UNCHANGED histVars
       /\ pc = "loop" =>
            /\ pc' = (IF ~is_running THEN "cleanup"
                      ELSE IF step'.data = "open" THEN "cycle"
                      ELSE "closed_sleep")
            /\ is_running => step'.kind = "market"
            /\ UNCHANGED <<account_info, positions, cache, available_slots>>
            /\ UNCHANGED histVars]_vars

\* the loop waits after a clock query that the rate limiter refused
C27_Witness ==
  /\ pc = "closed_sleep"
  /\ step.kind = "market"
  /\ step.data = "rate_limited"
  /\ is_running

\* C28: a cycle starts only at the top of the loop, never while another is
\* under way; a cycle, however it ends (no slot, slots used up, symbols
\* exhausted), is followed by the cooldown sleep of cooldown_period, and
\* only that sleep, the market-closed sleep and the start of run lead to
\* the top of the loop.
C28_CyclesSeparatedByCooldown ==
  [][pc' # pc =>
       /\ pc' = "cycle" => (pc = "loop" /\ ~CycleRunning /\ is_running)
       /\ pc' = "loop" => pc \in {"start", "cooldown", "closed_sleep"}
       /\ (CycleRunning /\ ~CycleRunning') => pc' = "cooldown"
       /\ CycleRunning' => (CycleRunning \/ pc' = "cycle")
       /\ pc = "cooldown" =>
            /\ pc' = "loop"
            /\ rlElapsed' = AfterSleep(rlElapsed, CooldownPeriod)
            /\ UNCHANGED <<account_info, positions, cache, available_slots,
                           symIdx, stratIdx>>
            /\ UNCHANGED histVars]_vars

\* back at the top of the loop after a cycle that used up its slots
C28_Witness ==
  /\ pc = "loop"
  /\ is_running
  /\ slots0 >= 1
  /\ available_slots = 0
  /\ orderIds >= 1
  /\ rlElapsed

\* C29: whatever the brokerage calls do (an API error, or a TypeError out
\* of the rate limiter, in get_account, list_positions, get_clock,
\* get_bars, create_order or close_position), the loop is left only with
\* the stop flag set, only the signal handler clears the flag, and as long
\* as it is not cleared the run comes back to the top of its loop again
\* and again, from where the next cycle starts when the market is open.
C29_FailuresDoNotEndTheLoop ==
  /\ [][/\ (pc' \in {"cleanup", "done"} /\ pc # pc') => ~is_running
        /\ (is_running /\ ~is_running') => pc' = pc
        /\ (pc = "loop" /\ pc' # pc /\ is_running /\ step'.data = "open") =>
              pc' = "cycle"
        /\ (pc = "cycle" /\ pc' # pc) => pc' \in {"symbol", "cooldown"}]_vars
  /\ []<>(~is_running \/ pc = "loop")

\* a further cycle is about to start although get_account has failed and
\* the cycle before made calls
C29_Witness ==
  /\ pc = "cycle"
  /\ is_running
  /\ active
  /\ ~account_info.has

\* run_bot: strategies = [MAStrategy(short_window=20, long_window=50)]
RunBotLongWindow == 50

\* C30: the bars requested for a symbol are requested from the resilient
\* fetcher, with the timeframe and the lookback of the strategy's
\* get_required_data.
C30_FetchFollowsStrategy ==
  step.kind = "fetch" =>
    LET request == FetchRequest(step.sym)
        required == RequiredData(RunBotLongWindow)
    IN  /\ request.via = "MarketDataFetcher.get_bars"
        /\ request.timeframe = required.timeframe
        /\ request.limit = required.lookback_bars

C38_FailedListingKeepsSnapshot ==
  [][(pc = "cycle" /\ pc' # pc /\ refreshed'.positions = "failed") =>
       positions' = positions]_vars

\* C39: in a cycle whose account refresh failed, an execution for a buy
\* signal submits no order.
C39_NoBuyAfterFailedAccountRefresh ==
  [][(/\ refreshed.account \in {"failed", "rate_limited"}
      /\ lastExec' # lastExec
      /\ lastExec'.action = "buy") => lastExec'.ret = 0]_vars

(***************************************************************************)
(* MarketDataFetcher (utils/data.py): one top-level get_bars call with its *)
(* feed loop and its recursion through _try_timeframe_fallbacks.  A table  *)
(* is known by its number of rows and by whether the standardizer accepts  *)
(* it (a usable timestamp index or column and all required columns); what  *)
(* client.get_bars does is one of "raise", "none" (the failure marker),    *)
(* "empty" (a table without rows) and "table".  lookback_bars and the      *)
(* minimum are positive; a minimum that was not given is written 0.        *)
(***************************************************************************)
\* the small lookback_bars of the model
MaxBars == 3
\* a lookback_bars above the daily retry threshold
LargeLookback == 150

\* params['limit'] = min(1000, lookback_bars)
MaxLimit == 1000
\* if timeframe == '1D' and lookback_bars > 100
DailyRetryThreshold == 100
\* reduced_lookback = min(100, min_required_bars)
ReducedLookbackCap == 100

Min(a, b) == IF a <= b THEN a ELSE b

\* a feed order that asks the retail feed first
FeedsIexFirst == <<"iex", "sip", "default">>

\* feeds_to_try = ['sip', None, 'iex'], by feed_name
FeedsToTry == <<"sip", "default", "iex">>

\* the keys of the fallbacks table, and a timeframe that is not one of them
StartTimeframes == {"1Min", "2Min", "5Min", "15Min", "30Min", "1H", "1D", "4H"}

\* fallbacks.get(timeframe, [])
Fallbacks(timeframe) ==
  CASE timeframe = "1Min"  -> <<"2Min", "5Min", "15Min", "1H", "1D">>
    [] timeframe = "2Min"  -> <<"5Min", "15Min", "1H", "1D">>
    [] timeframe = "5Min"  -> <<"15Min", "1H", "1D">>
    [] timeframe = "15Min" -> <<"30Min", "1H", "1D">>
    [] timeframe = "30Min" -> <<"1H", "1D">>
    [] timeframe = "1H"    -> <<"1D">>
    [] OTHER               -> <<>>

\* a fallback that jumps to the coarsest option
NextTimeframeCoarsest(timeframe) ==
  Fallbacks(timeframe)[Len(Fallbacks(timeframe))]

\* next_timeframe = fallback_options[0]
NextTimeframe(timeframe) == Head(Fallbacks(timeframe))

\* the lookback_bars and min_required_bars a caller may pass
Lookbacks == {MaxBars, LargeLookback}
MinGiven(lookback_bars) == {0, MaxBars - 1, lookback_bars - 1}

\* the numbers of rows a table may have
BarCounts == {1, MaxBars, DailyRetryThreshold - 1, LargeLookback}

\* min_required_bars = min_required_bars or lookback_bars
MinRequired(min_required_bars, lookback_bars) ==
  IF min_required_bars # 0 THEN min_required_bars ELSE lookback_bars

\* params = {'limit': min(1000, lookback_bars), 'timeframe': timeframe}
Limit(lookback_bars) == Min(MaxLimit, lookback_bars)

\* what self.client.get_bars(symbol, **params) may do
Table(n, ok) == [kind |-> "table", n |-> n, ok |-> ok]
ClientOutcomes ==
  {[kind |-> k, n |-> 0, ok |-> FALSE] : k \in {"raise", "none", "empty"}}
    \cup {Table(n, ok) : n \in BarCounts, ok \in BOOLEAN}

\* bars_df is not None and not bars_df.empty
HasBars(df) == df.kind = "table"

\* a pagination test that also fires on a full page
NeedsPaginationInclusive(df, lookback_bars) ==
  HasBars(df) /\ df.n <= lookback_bars

\* ... and len(bars_df) < lookback_bars
NeedsPagination(df, lookback_bars) == HasBars(df) /\ df.n < lookback_bars

\* the numbers of distinct timestamps the concatenation of two pages of a
\* and b rows may have
CombinedCounts(a, b) == {k \in BarCounts \cup {a + b} : k <= a + b}

\* whether the standardizer accepts the concatenation: the union of the
\* columns and an index built from both pages
CombinedOk(more, df) == {more.ok /\ df.ok, more.ok \/ df.ok}

\* pd.concat([more_bars_df, bars_df]) without duplicated index values, when
\* the second page has rows; n is the number of distinct timestamps
Combined(more, df, n, ok) ==
  IF HasBars(more) THEN Table(n, ok) ELSE df

\* len of the result of _standardize_dataframe, 0 for None: the rows are
\* sorted and none is dropped
StandardizedLen(df) == IF df.ok THEN df.n ELSE 0

\* a sufficiency test that accepts any table with rows
SufficientNonEmpty(n, min_required_bars) == n >= 1

\* len(bars_df) >= min_required_bars
Sufficient(n, min_required_bars) == n >= min_required_bars

\* a try block that lets the exception through
TryExceptPropagates(verdict) == verdict

\* try: ... except Exception: log and go on with the next feed
TryExcept(verdict) == IF verdict = "raise" THEN "caught" ELSE verdict

\* the body of the feed loop for one feed: the requests it makes, the
\* standardized length it reaches and how it ends: "return", "raise" (an
\* exception in the try block) or a reason to go on with the next feed
AttemptRecord(feed, c, first, requests, more, combined, bars, verdict) ==
  [feed |-> feed, timeframe |-> c.timeframe, lookback_bars |-> c.lookback_bars,
   requests |-> requests, initial |-> first.kind, initial_n |-> first.n,
   more |-> more, combined |-> combined, bars |-> bars,
   verdict |-> TryExcept(verdict)]

\* lines 116-157, for the table df the requests ended with
Processed(feed, c, first, requests, more, df) ==
  LET bars == StandardizedLen(df)
      verdict == IF ~HasBars(df) THEN "no_data"
                 ELSE IF bars = 0 THEN "not_standardized"
                 ELSE IF Sufficient(bars, c.min_required_bars) THEN "return"
                 ELSE "insufficient"
  IN  AttemptRecord(feed, c, first, requests, more, df.n,
                    IF HasBars(df) THEN bars ELSE 0, verdict)

\* every way the body of the feed loop may go for call c
Attempts(feed, c) ==
  LET raised(first, requests, more) ==
        AttemptRecord(feed, c, first, requests, more, 0, 0, "raise")
  IN  {IF first.kind = "raise" THEN raised(first, 1, "")
       ELSE Processed(feed, c, first, 1, "", first) :
         first \in {f \in ClientOutcomes :
                      ~NeedsPagination(f, c.lookback_bars)}}
      \cup
      UNION
      {{IF more.kind = "raise" THEN raised(first, 2, more.kind)
        ELSE Processed(feed, c, first, 2, more.kind,
                       Combined(more, first, n, ok)) :
          n \in CombinedCounts(more.n, first.n), ok \in CombinedOk(more, first)} :
         <<first, more>> \in
           {<<f, m>> \in ClientOutcomes \X ClientOutcomes :
              NeedsPagination(f, c.lookback_bars)}}

\* one invocation of get_bars as the recursion sees it
Round(lookback_bars, timeframe, min_required_bars) ==
  [lookback_bars |-> lookback_bars, timeframe |-> timeframe,
   given |-> min_required_bars,
   min_required_bars |-> MinRequired(min_required_bars, lookback_bars)]

\* lines 58-65: the arguments and the locals of an invocation
EnterGetBars(lookback_bars, timeframe, min_required_bars) ==
  /\ fcall' = [lookback_bars |-> lookback_bars, timeframe |-> timeframe,
               min_required_bars |->
                 MinRequired(min_required_bars, lookback_bars)]
  /\ rounds' = Append(rounds, Round(lookback_bars, timeframe, min_required_bars))
  /\ feedIdx' = 1
  /\ tried' = <<>>
  /\ fpc' = "feeds"

\* return of the top-level call (the recursion returns what the inner
\* invocation returns)
ReturnSeries(a) ==
  [kind |-> "series", bars |-> a.bars, feed |-> a.feed, timeframe |-> a.timeframe]
ReturnNone == [kind |-> "none", bars |-> 0, feed |-> "", timeframe |-> ""]
Raised == [kind |-> "raised", bars |-> 0, feed |-> "", timeframe |-> ""]

\* an entry of the log: an event of log.*_event, or a request sent to the
\* client ("request", and "supplemental_request" for the one with end)
Event(name, timeframe, feed, to) ==
  [name |-> name, timeframe |-> timeframe, feed |-> feed, to |-> to]

\* a body of the feed loop that announces the pagination after the request
AttemptEventsUnannounced(a) ==
  <<Event("request", a.timeframe, a.feed, "")>>
    \o (IF a.requests = 2
          THEN <<Event("supplemental_request", a.timeframe, a.feed, ""),
                 Event("pagination_attempt", a.timeframe, a.feed, "")>>
          ELSE <<>>)
    \o (IF a.verdict = "return"
          THEN <<Event("data_fetch_success", a.timeframe, a.feed, "")>>
          ELSE <<>>)

\* what the body of the feed loop sends and logs, in this order: lines 81,
\* 87, 100, 108, 135, 151, 160
AttemptEvents(a) ==
  <<Event("request", a.timeframe, a.feed, "")>>
    \o (IF a.requests = 2
          THEN <<Event("pagination_attempt", a.timeframe, a.feed, ""),
                 Event("supplemental_request", a.timeframe, a.feed, "")>>
          ELSE <<>>)
    \o (IF a.requests = 2 /\ a.more = "table"
          THEN <<Event("pagination_success", a.timeframe, a.feed, "")>>
          ELSE <<>>)
    \o (CASE a.verdict = "return" ->
               <<Event("data_fetch_success", a.timeframe, a.feed, "")>>
           [] a.verdict = "insufficient" ->
               <<Event("insufficient_data", a.timeframe, a.feed, "")>>
           [] a.verdict = "caught" ->
               <<Event("data_fetch_error", a.timeframe, a.feed, "")>>
           [] OTHER -> <<>>)

\* the log after a step that logged these entries
Logged(entries) ==
  LET count(name) ==
        Cardinality({i \in DOMAIN entries : entries[i].name = name})
  IN  [last |-> entries,
       success |-> events.success + count("data_fetch_success"),
       complete_failure |->
         events.complete_failure + count("data_fetch_complete_failure")]

\* the frame of the fetcher's actions
FetcherFrame ==
  UNCHANGED <<traderVars, providerVars, standardizerVars, strategyVars,
              paginationVars, retryVars>>

\* a caller invokes get_bars
GetBars ==
  /\ fpc = "idle"
  /\ \E lookback_bars \in Lookbacks, timeframe \in StartTimeframes :
       \E min_required_bars \in MinGiven(lookback_bars) :
         EnterGetBars(lookback_bars, timeframe, min_required_bars)
  /\ events' = Logged(<<>>)
  /\ UNCHANGED <<attempt, fret>>
  /\ FetcherFrame

\* one iteration of for feed in feeds_to_try
FeedAttempt ==
  /\ fpc = "feeds"
  /\ feedIdx <= Len(FeedsToTry)
  /\ \E a \in Attempts(FeedsToTry[feedIdx], fcall) :
       /\ attempt' = a
       /\ events' = Logged(AttemptEvents(a))
       /\ fpc' = IF a.verdict \in {"return", "raise"} THEN "returned" ELSE fpc
       /\ fret' = IF a.verdict = "return" THEN ReturnSeries(a)
                  ELSE IF a.verdict = "raise" THEN Raised
                  ELSE fret
       /\ feedIdx' = IF a.verdict \in {"return", "raise"} THEN feedIdx
                     ELSE feedIdx + 1
  /\ tried' = Append(tried, FeedsToTry[feedIdx])
  /\ UNCHANGED <<fcall, rounds>>
  /\ FetcherFrame

\* _try_timeframe_fallbacks, lines 265-281: the next timeframe
FallbackNextTimeframe ==
  /\ fpc = "feeds"
  /\ feedIdx > Len(FeedsToTry)
  /\ Fallbacks(fcall.timeframe) # <<>>
  /\ EnterGetBars(fcall.lookback_bars, NextTimeframe(fcall.timeframe),
                  fcall.min_required_bars)
  /\ events' = Logged(<<Event("timeframe_fallback", fcall.timeframe, "",
                              NextTimeframe(fcall.timeframe))>>)
  /\ UNCHANGED <<attempt, fret>>
  /\ FetcherFrame

\* a daily retry at any request size
ReducesDailyAnySize(c) == c.timeframe = "1D"

\* if timeframe == '1D' and lookback_bars > 100
ReducesDaily(c) ==
  c.timeframe = "1D" /\ c.lookback_bars > DailyRetryThreshold

\* a reduced size taken from the request size instead of the minimum
ReducedLookbackOfRequest(c) == Min(ReducedLookbackCap, c.lookback_bars)

\* reduced_lookback = min(100, min_required_bars)
ReducedLookback(c) == Min(ReducedLookbackCap, c.min_required_bars)

\* _try_timeframe_fallbacks, lines 247-264: the daily retry of reduced size
FallbackReducedDaily ==
  /\ fpc = "feeds"
  /\ feedIdx > Len(FeedsToTry)
  /\ Fallbacks(fcall.timeframe) = <<>>
  /\ ReducesDaily(fcall)
  /\ EnterGetBars(ReducedLookback(fcall), fcall.timeframe,
                  fcall.min_required_bars)
  /\ events' = Logged(<<Event("request_size_reduction", fcall.timeframe,
                              "", "")>>)
  /\ UNCHANGED <<attempt, fret>>
  /\ FetcherFrame

\* _try_timeframe_fallbacks, lines 283-291: return None
FallbackExhausted ==
  /\ fpc = "feeds"
  /\ feedIdx > Len(FeedsToTry)
  /\ Fallbacks(fcall.timeframe) = <<>>
  /\ ~ReducesDaily(fcall)
  /\ fpc' = "returned"
  /\ fret' = ReturnNone
  /\ events' = Logged(<<Event("data_fetch_complete_failure", "", "", "")>>)
  /\ UNCHANGED <<fcall, feedIdx, tried, rounds, attempt>>
  /\ FetcherFrame

FetcherNext ==
  \/ GetBars
  \/ FeedAttempt
  \/ FallbackNextTimeframe
  \/ FallbackReducedDaily
  \/ FallbackExhausted

FetcherSpec == Init /\ [][FetcherNext]_vars

(***************************************************************************)
(* Claims about the fetcher                                                *)
(***************************************************************************)
\* C11: within one invocation (one timeframe) the feeds are requested in
\* the order sip, default, iex; a feed whose standardized series has at
\* least min_required_bars bars ends the call with that series, and no
\* feed is requested after it.
C11_FeedOrderAndShortCircuit ==
  /\ Len(tried) <= 3
  /\ \A i \in 1..Len(tried) : tried[i] = <<"sip", "default", "iex">>[i]
  /\ (attempt.bars >= 1 /\ attempt.bars >= fcall.min_required_bars) =>
       attempt.verdict = "return"
  /\ attempt.verdict = "return" =>
       /\ fpc = "returned"
       /\ fret = [kind |-> "series", bars |-> attempt.bars,
                  feed |-> attempt.feed, timeframe |-> attempt.timeframe]
       /\ tried[Len(tried)] = attempt.feed
       /\ fcall.timeframe = attempt.timeframe

\* the default feed sufficed after sip had failed: iex was not asked
C11_Witness ==
  /\ fpc = "returned"
  /\ fret.kind = "series"
  /\ fret.feed = "default"
  /\ tried = <<"sip", "default">>

\* C12: a series returned by get_bars, at whatever feed or timeframe and in
\* the daily retry of reduced size too, has at least min_required_bars bars,
\* the caller's value or else lookback_bars; otherwise the call returns no
\* data.
C12_ReturnedSeriesMeetsMinimum ==
  fpc = "returned" =>
    /\ fret.kind \in {"series", "none"}
    /\ fret.kind = "series" =>
         fret.bars >= (IF rounds[1].given # 0 THEN rounds[1].given
                                              ELSE rounds[1].lookback_bars)

\* a series returned by the daily retry of reduced size, the caller having
\* given no minimum
C12_Witness ==
  /\ fpc = "returned"
  /\ fret.kind = "series"
  /\ rounds[1].given = 0
  /\ rounds[Len(rounds)].lookback_bars < rounds[1].lookback_bars

\* C13: a feed attempt whose initial fetch returns between 1 and
\* lookback_bars - 1 bars makes exactly one supplemental request, and what
\* is standardized is the table the two requests ended with; one whose
\* initial fetch returns nothing or at least lookback_bars bars makes none.
C13_OnePaginationRequest ==
  attempt.verdict # "" =>
    /\ attempt.requests \in {1, 2}
    /\ (/\ attempt.initial = "table"
        /\ attempt.initial_n >= 1
        /\ attempt.initial_n < attempt.lookback_bars) => attempt.requests = 2
    /\ (\/ attempt.initial \in {"none", "empty"}
        \/ /\ attempt.initial = "table"
           /\ attempt.initial_n >= attempt.lookback_bars) => attempt.requests = 1
    /\ (attempt.requests = 2 /\ attempt.verdict # "caught") =>
         attempt.bars \in {0, attempt.combined}

\* a short first page, a second page with rows, and the series returned
C13_Witness ==
  /\ attempt.requests = 2
  /\ attempt.initial_n < attempt.lookback_bars
  /\ attempt.more = "table"
  /\ attempt.combined > attempt.initial_n
  /\ attempt.verdict = "return"

\* C14: the invocation after one whose feeds all failed is at the next
\* coarser timeframe of 1Min, 2Min, 5Min, 15Min, 30Min, 1H, 1D, with the
\* same lookback and minimum; from 1Min with every feed failing the seven
\* timeframes are visited in this order, and after 1D comes no other
\* timeframe.
C14_TimeframeChain ==
  LET chain == <<"1Min", "2Min", "5Min", "15Min", "30Min", "1H", "1D">>
      pos(tf) == CHOOSE i \in 1..7 : chain[i] = tf
  IN  /\ \A i \in 1..(Len(rounds) - 1) :
           /\ \E k \in 1..7 : chain[k] = rounds[i].timeframe
           /\ rounds[i + 1].min_required_bars = rounds[i].min_required_bars
           /\ IF rounds[i].timeframe = "1D"
                THEN rounds[i + 1].timeframe = "1D"
                ELSE /\ rounds[i + 1].timeframe =
                          chain[pos(rounds[i].timeframe) + 1]
                     /\ rounds[i + 1].lookback_bars = rounds[i].lookback_bars
      /\ (Len(rounds) > 1 /\ fpc = "feeds" /\ tried = <<>>) =>
           attempt.verdict \notin {"", "return"}
      /\ (/\ fpc = "returned"
          /\ fret.kind = "none"
          /\ rounds[1].timeframe = "1Min") =>
           /\ Len(rounds) \in {7, 8}
           /\ \A i \in 1..7 : rounds[i].timeframe = chain[i]
           /\ Len(rounds) = 8 => rounds[8].timeframe = "1D"

\* a call at 1Min that ended without data after the seven timeframes
C14_Witness ==
  /\ fpc = "returned"
  /\ fret.kind = "none"
  /\ Len(rounds) = 7
  /\ rounds[1].timeframe = "1Min"
  /\ rounds[7].timeframe = "1D"

\* C15: whatever the requests do (raise, return the failure marker, an empty
\* table, a table the standardizer rejects, too few bars), get_bars returns
\* a series or no data and no exception leaves it.
C15_NeverRaises ==
  /\ fret.kind # "raised"
  /\ attempt.verdict # "raise"
  /\ fret.kind \in {"pending", "series", "none"}
  /\ fret.kind = "pending" <=> fpc # "returned"

\* a call that returned no data although its last request raised
C15_Witness ==
  /\ fpc = "returned"
  /\ fret.kind = "none"
  /\ attempt.initial = "raise"
  /\ attempt.verdict = "caught"

\* round i of the call ended with every feed failing
RoundFailed(i) ==
  \/ i < Len(rounds)
  \/ i = Len(rounds) /\ fpc = "returned" /\ fret.kind = "none"

\* C36: when every feed has failed at 1D and lookback_bars > 100, one more
\* round follows at 1D whose request size is min(100, min_required_bars)
\* and whose minimum is unchanged, and it is the last round; when
\* lookback_bars <= 100 no round follows and the call returns no data.
C36_ReducedDailyRetry ==
  \A i \in 1..Len(rounds) :
    (rounds[i].timeframe = "1D" /\ RoundFailed(i)) =>
      IF rounds[i].lookback_bars > 100
        THEN /\ i < Len(rounds)
             /\ rounds[i + 1].timeframe = "1D"
             /\ rounds[i + 1].lookback_bars =
                  Min(100, rounds[i].min_required_bars)
             /\ Limit(rounds[i + 1].lookback_bars) =
                  Min(100, rounds[i].min_required_bars)
             /\ rounds[i + 1].min_required_bars = rounds[i].min_required_bars
             /\ i + 1 = Len(rounds)
        ELSE /\ i = Len(rounds)
             /\ fpc = "returned"
             /\ fret.kind = "none"

\* the reduced round asked for the caller's minimum of 2 bars and failed
C36_Witness ==
  /\ fpc = "returned"
  /\ fret.kind = "none"
  /\ Len(rounds) >= 2
  /\ rounds[Len(rounds) - 1].lookback_bars = LargeLookback
  /\ rounds[Len(rounds)].lookback_bars = MaxBars - 1

\* the length of a bar of the timeframe, in minutes
Minutes(timeframe) ==
  CASE timeframe = "1Min"  -> 1
    [] timeframe = "2Min"  -> 2
    [] timeframe = "5Min"  -> 5
    [] timeframe = "15Min" -> 15
    [] timeframe = "30Min" -> 30
    [] timeframe = "1H"    -> 60
    [] timeframe = "4H"    -> 240
    [] timeframe = "1D"    -> 1440

\* the rounds that follow a round at this timeframe and request size when
\* every feed fails
RECURSIVE RoundsAfter(_, _)
RoundsAfter(timeframe, lookback_bars) ==
  IF Fallbacks(timeframe) # <<>>
    THEN 1 + RoundsAfter(NextTimeframe(timeframe), lookback_bars)
  ELSE IF timeframe = "1D" /\ lookback_bars > DailyRetryThreshold THEN 1
  ELSE 0

\* the steps a call in progress has left at most: the feeds of this round,
\* the step into the fallback, and the same for every round that follows
StepsLeft(position, c, idx) ==
  IF position # "feeds" THEN 0
  ELSE (Len(FeedsToTry) + 1) * RoundsAfter(c.timeframe, c.lookback_bars)
         + (Len(FeedsToTry) + 1 - idx) + 1

\* a call in progress has a next step: the body of the loop for the next
\* feed, or one of the three ways through _try_timeframe_fallbacks
CanStep ==
  \/ /\ feedIdx <= Len(FeedsToTry)
     /\ \E a \in Attempts(FeedsToTry[feedIdx], fcall) : TRUE
  \/ /\ feedIdx > Len(FeedsToTry)
     /\ ENABLED (\/ FallbackNextTimeframe
                 \/ FallbackReducedDaily
                 \/ FallbackExhausted)

\* C37: a call in progress can always take a step, and each of its steps
\* lowers the number of steps it has left, which is never negative, so the
\* call returns; a call at a timeframe that is not in the table has one
\* round; a round at another timeframe than the round before is at a
\* coarser one, at most one round repeats the timeframe of the round
\* before, and there are at most 8 rounds of at most 3 feed attempts of at
\* most 2 requests each.
C37_FetchTerminates ==
  /\ [][fpc = "feeds" =>
          /\ StepsLeft(fpc', fcall', feedIdx') < StepsLeft(fpc, fcall, feedIdx)
          /\ StepsLeft(fpc', fcall', feedIdx') >= 0]_vars
  /\ [](fpc = "feeds" => CanStep)
  /\ [](/\ Len(rounds) <= 8
        /\ (Len(rounds) >= 1 /\ rounds[1].timeframe = "4H") => Len(rounds) = 1
        /\ Len(tried) <= 3
        /\ attempt.requests <= 2
        /\ \A i \in 1..(Len(rounds) - 1) :
             \/ Minutes(rounds[i + 1].timeframe) > Minutes(rounds[i].timeframe)
             \/ /\ rounds[i + 1].timeframe = rounds[i].timeframe
                /\ i + 1 = Len(rounds)
        /\ Cardinality({i \in 1..(Len(rounds) - 1) :
                          rounds[i + 1].timeframe = rounds[i].timeframe}) <= 1)

\* eight rounds, the last one the reduced daily retry, and no data
C37_Witness ==
  /\ fpc = "returned"
  /\ fret.kind = "none"
  /\ Len(rounds) = 8
  /\ rounds[8].timeframe = rounds[7].timeframe

\* the entries of the log of the step just taken that have this name
Named(name) == {i \in DOMAIN events.last : events.last[i].name = name}

\* C32: a call that returned no data has logged data_fetch_complete_failure
\* once and data_fetch_success never; one that returned a series has logged
\* data_fetch_success once and data_fetch_complete_failure never; the step
\* to another timeframe logs one timeframe_fallback with the old and the
\* new timeframe and sends no request, so that the event comes before the
\* first request at the new timeframe; a supplemental request comes right
\* after a pagination_attempt event, and there is one such event for each.
C32_EventsOfACall ==
  /\ [](/\ (fpc = "returned" /\ fret.kind = "none") =>
             (events.complete_failure = 1 /\ events.success = 0)
        /\ (fpc = "returned" /\ fret.kind = "series") =>
             (events.success = 1 /\ events.complete_failure = 0)
        /\ fpc # "returned" =>
             (events.success = 0 /\ events.complete_failure = 0)
        /\ \A i \in Named("supplemental_request") :
             /\ i > 1
             /\ events.last[i - 1] =
                  Event("pagination_attempt", attempt.timeframe,
                        attempt.feed, "")
        /\ Cardinality(Named("pagination_attempt")) =
             Cardinality(Named("supplemental_request"))
        /\ Cardinality(Named("supplemental_request")) =
             (IF Named("request") # {} /\ attempt.requests = 2 THEN 1 ELSE 0))
  /\ [][(fpc = "feeds" /\ fcall'.timeframe # fcall.timeframe) =>
          /\ events'.last =
               <<Event("timeframe_fallback", fcall.timeframe, "",
                       fcall'.timeframe)>>
          /\ tried' = <<>>]_vars
  /\ [][(fpc' = "feeds" /\ Named("timeframe_fallback") # {}
           /\ events' # events) =>
          /\ events'.last # <<>>
          /\ events'.last[1] = Event("request", fcall.timeframe,
                                     FeedsToTry[1], "")]_vars

\* a series returned after a fallback to a coarser timeframe and a
\* supplemental request there
C32_Witness ==
  /\ fpc = "returned"
  /\ fret.kind = "series"
  /\ Len(rounds) >= 2
  /\ events.success = 1
  /\ Named("supplemental_request") # {}

(***************************************************************************)
(* DataProvider (data/provider.py) with its keys and its clock.  A ticker  *)
(* is a sequence of letters, a key the sequence of the characters of the   *)
(* f-string (timeframe and limit taken whole); tickers hold neither a      *)
(* comma nor an underscore.  The clock counts seconds; it is read once per *)
(* call, the time a fetch takes being time that passed before the call.    *)
(* An object is known by its identity, its position in `objects`.          *)
(***************************************************************************)
\* number of DataProvider.get_bars calls of a behaviour
MaxRequests == 2

\* the letters of the tickers, in code point order
Letters == <<"A", "B">>
Rank(c) == CHOOSE i \in 1..Len(Letters) : Letters[i] = c

\* the tickers A, B and AB
TickerA == <<"A">>
TickerB == <<"B">>
TickerAB == <<"A", "B">>

\* the symbols arguments of the model
SymbolLists == {<<TickerA>>, <<TickerA, TickerB>>, <<TickerB, TickerA>>, <<TickerAB>>}

\* the timeframe and limit arguments of the model
BarParams == {<<"1Min", 100>>, <<"5Min", 100>>, <<"1Min", 50>>}

\* the time that may pass between two calls, and the end of the clock
Delays == {CacheDuration - 1, CacheDuration}
MaxClock == 2 * CacheDuration

\* a < b for two strings, as Python compares them
RECURSIVE StrLess(_, _)
StrLess(a, b) ==
  IF b = <<>> THEN FALSE
  ELSE IF a = <<>> THEN TRUE
  ELSE IF Head(a) # Head(b) THEN Rank(Head(a)) < Rank(Head(b))
  ELSE StrLess(Tail(a), Tail(b))

\* sorted(symbols)
RECURSIVE Insert(_, _)
Insert(x, sorted) ==
  IF sorted = <<>> THEN <<x>>
  ELSE IF StrLess(x, Head(sorted)) THEN <<x>> \o sorted
  ELSE <<Head(sorted)>> \o Insert(x, Tail(sorted))

RECURSIVE Sorted(_)
Sorted(symbols) ==
  IF symbols = <<>> THEN <<>>
  ELSE Insert(symbols[Len(symbols)], Sorted(SubSeq(symbols, 1, Len(symbols) - 1)))

\* ','.join(names)
RECURSIVE Join(_)
Join(names) ==
  IF names = <<>> THEN <<>>
  ELSE IF Len(names) = 1 THEN Head(names)
  ELSE Head(names) \o <<",">> \o Join(Tail(names))

\* a key built from the symbols in the order given
CacheKeyUnsorted(symbols, timeframe, limit) ==
  Join(symbols) \o <<"_", timeframe, "_", ToString(limit)>>

\* cache_key = f"{','.join(sorted(symbols))}_{timeframe}_{limit}"
CacheKey(symbols, timeframe, limit) ==
  Join(Sorted(symbols)) \o <<"_", timeframe, "_", ToString(limit)>>

\* a validity test that still accepts an entry of age cache_duration
IsCacheValidInclusive(timestamps, cache_key, now) ==
  /\ cache_key \in DOMAIN timestamps
  /\ now - timestamps[cache_key] <= CacheDuration

\* _is_cache_valid
IsCacheValid(timestamps, cache_key, now) ==
  /\ cache_key \in DOMAIN timestamps
  /\ now - timestamps[cache_key] < CacheDuration

\* d[key] = value
Put(d, key, value) ==
  [k \in DOMAIN d \cup {key} |-> IF k = key THEN value ELSE d[k]]

\* a store that keeps the timestamp of an entry it replaces
StampKeepsFirst(timestamps, cache_key, now) ==
  IF cache_key \in DOMAIN timestamps THEN timestamps
  ELSE Put(timestamps, cache_key, now)

\* self.cache_timestamps[cache_key] = datetime.now()
Stamp(timestamps, cache_key, now) == Put(timestamps, cache_key, now)

\* what the underlying fetch may do: return a dict with tables ("data"),
\* return {} ("empty"), or raise
FetchResults == {"data", "empty", "raise"}

\* the object a call creates: the dict of the client, or the {} of the
\* except clause
NewObject(symbols, timeframe, limit, result) ==
  [symbols |-> symbols, timeframe |-> timeframe, limit |-> limit,
   truthy |-> result = "data"]

\* a condition that stores whatever the fetch returned
StoresAnyReturn(result) == result # "raise"

\* if use_cache and data, with use_cache left True: {} is not stored
Stores(result) == result = "data"

\* a call that is not counted
CountNothing(s) == s

\* self.stats["requests"] += 1
CountRequest(s) == [s EXCEPT !.requests = @ + 1]

\* self.stats["cache_hits"] += 1
CountHit(s) == [s EXCEPT !.cache_hits = @ + 1]

\* self.stats["failed_requests"] += 1
CountFailure(s) == [s EXCEPT !.failed_requests = @ + 1]

\* get_cache_stats(); the ratio is kept as numerator and denominator
GetCacheStats(cache_, s) ==
  [cache_size |-> Cardinality(DOMAIN cache_),
   cache_hits |-> s.cache_hits,
   requests |-> s.requests,
   hit_ratio |-> [num |-> s.cache_hits, den |-> Max(1, s.requests)],
   failed_requests |-> s.failed_requests]

\* the frame of the provider's actions
ProviderFrame ==
  UNCHANGED <<traderVars, fetcherVars, standardizerVars, strategyVars,
              paginationVars, retryVars>>

\* DataProvider.get_bars(symbols, timeframe, limit) with use_cache left True
ProviderGetBars ==
  /\ stats.requests < MaxRequests
  /\ \E symbols \in SymbolLists, bp \in BarParams, result \in FetchResults :
       LET timeframe == bp[1]
           limit == bp[2]
           cache_key == CacheKey(symbols, timeframe, limit)
           had == cache_key \in DOMAIN pcache
           hit == had /\ IsCacheValid(cache_timestamps, cache_key, clock)
           yielded == ~hit /\ Stores(result)
           counted == CountRequest(stats)
           id == Len(objects) + 1
       IN  /\ stats' = IF hit THEN CountHit(counted)
                        ELSE IF result = "raise" THEN CountFailure(counted)
                        ELSE counted
           /\ objects' =
                IF hit THEN objects
                ELSE Append(objects, NewObject(symbols, timeframe, limit, result))
           /\ pcache' = IF yielded THEN Put(pcache, cache_key, id) ELSE pcache
           /\ cache_timestamps' =
                IF yielded THEN Stamp(cache_timestamps, cache_key, clock)
                ELSE cache_timestamps
           /\ call' =
                [op |-> "get_bars", result |-> IF hit THEN "" ELSE result,
                 symbols |-> symbols, timeframe |-> timeframe, limit |-> limit,
                 key |-> cache_key, had |-> had,
                 age |-> IF cache_key \in DOMAIN cache_timestamps
                           THEN clock - cache_timestamps[cache_key] ELSE 0,
                 stored |-> IF had THEN pcache[cache_key] ELSE 0,
                 hit |-> hit, fetched |-> ~hit, yielded |-> yielded,
                 ret |-> IF hit THEN pcache[cache_key] ELSE id,
                 hits0 |-> stats.cache_hits, at |-> clock]
  /\ UNCHANGED clock
  /\ ProviderFrame

\* time passes before a call
Tick ==
  /\ stats.requests < MaxRequests
  /\ \E d \in Delays :
       /\ clock + d <= MaxClock
       /\ clock' = clock + d
  /\ call' = NoProviderCall
  /\ UNCHANGED <<pcache, cache_timestamps, stats, objects>>
  /\ ProviderFrame

ProviderNext ==
  \/ ProviderGetBars
  \/ Tick

ProviderSpec == Init /\ [][ProviderNext]_vars

\* clear_cache, when the step before was not a clear already
ClearCache ==
  /\ call.op # "clear_cache"
  /\ pcache' = <<>>
  /\ cache_timestamps' = <<>>
  /\ call' = [NoProviderCall EXCEPT !.op = "clear_cache"]
  /\ UNCHANGED <<stats, clock, objects>>
  /\ ProviderFrame

ProviderClearNext ==
  \/ ProviderGetBars
  \/ Tick
  \/ ClearCache

\* fetches and clears in any order
ProviderClearSpec == Init /\ [][ProviderClearNext]_vars

(***************************************************************************)
(* Claims about the cache                                                  *)
(***************************************************************************)
\* a get_bars call was made in the step just taken
Called == call.key # <<>>

\* the objects created before the call of the step just taken
Earlier == 1..(Len(objects) - (IF call.fetched THEN 1 ELSE 0))

\* the elements of a list, and how often x is one
Elements(list) == {list[i] : i \in DOMAIN list}
Count(x, list) == Cardinality({i \in DOMAIN list : list[i] = x})
IsPermutation(a, b) ==
  \A x \in Elements(a) \cup Elements(b) : Count(x, a) = Count(x, b)

\* C17: a fetch whose key is that of an earlier fetch that obtained data,
\* made less than cache_duration after it, returns the stored object
\* itself, runs no underlying fetch and adds exactly one to the hit
\* counter; made cache_duration or more after it, it runs the underlying
\* fetch again.
C17_RepeatWithinTtlIsHit ==
  Called =>
    /\ call.had <=>
         \E i \in Earlier :
           /\ objects[i].truthy
           /\ CacheKey(objects[i].symbols, objects[i].timeframe,
                       objects[i].limit) = call.key
    /\ (call.had /\ call.age < CacheDuration) =>
         /\ call.hit
         /\ ~call.fetched
         /\ call.ret = call.stored
         /\ call.ret \in Earlier
         /\ objects[call.ret].truthy
         /\ stats.cache_hits = call.hits0 + 1
    /\ (call.had /\ call.age >= CacheDuration) =>
         /\ call.fetched
         /\ ~call.hit
         /\ stats.cache_hits = call.hits0

\* a hit one second before the entry expires
C17_Witness ==
  /\ Called
  /\ call.hit
  /\ call.age = CacheDuration - 1
  /\ stats.cache_hits = 1

\* C18: a stored entry is served only while now minus its timestamp is less
\* than cache_duration; for an absent or expired key the call runs the
\* underlying fetch and does not return the stored object, and when the
\* fetch yields data the entry is replaced and stamped with the time of
\* this fetch.
C18_ExpiredOrAbsentIsMiss ==
  /\ DOMAIN pcache = DOMAIN cache_timestamps
  /\ \A k \in DOMAIN cache_timestamps : cache_timestamps[k] <= clock
  /\ Called =>
       /\ call.hit => (call.had /\ call.age < CacheDuration)
       /\ (~call.had \/ call.age >= CacheDuration) =>
            /\ call.fetched
            /\ call.ret # call.stored
            /\ call.yielded =>
                 /\ call.key \in DOMAIN pcache
                 /\ pcache[call.key] = call.ret
                 /\ cache_timestamps[call.key] = call.at
                 /\ call.at = clock

\* an entry of age cache_duration, replaced by the data of a new fetch
C18_Witness ==
  /\ Called
  /\ call.had
  /\ call.age = CacheDuration
  /\ call.yielded
  /\ pcache[call.key] # call.stored

\* C19: two symbol lists that are permutations of each other give, with the
\* same timeframe and limit, the same key, so that the second fetch finds
\* the entry of the first; lists of different symbols, or another timeframe
\* or limit, give different keys and never share an entry.
C19_KeyIgnoresSymbolOrder ==
  Called =>
       /\ \A s \in SymbolLists, p \in BarParams :
            LET k == CacheKey(s, p[1], p[2])
                same == p = <<call.timeframe, call.limit>>
            IN  /\ (IsPermutation(s, call.symbols) /\ same) => k = call.key
                /\ (Elements(s) # Elements(call.symbols) \/ ~same) =>
                     k # call.key
       /\ (\E i \in Earlier :
             /\ objects[i].truthy
             /\ IsPermutation(objects[i].symbols, call.symbols)
             /\ objects[i].timeframe = call.timeframe
             /\ objects[i].limit = call.limit) => call.had
       /\ call.had =>
            LET o == objects[call.stored]
            IN  /\ Elements(o.symbols) = Elements(call.symbols)
                /\ o.timeframe = call.timeframe
                /\ o.limit = call.limit

\* a fetch for B, A served the object stored by a fetch for A, B
C19_Witness ==
  /\ Called
  /\ call.hit
  /\ call.symbols = <<TickerB, TickerA>>
  /\ objects[call.ret].symbols = <<TickerA, TickerB>>

\* C33: a get_bars call adds one to the requests counter; no step lowers
\* the hit or the failure counter, and a step that is not a get_bars call
\* leaves the counters alone; clear_cache leaves no entry and no entry
\* timestamp and changes no counter; hits never exceed requests; and the
\* hit ratio of get_cache_stats is hits over max(1, requests), 0 before the
\* first request.
C33_CountersAndClear ==
  /\ [][call'.op = "get_bars" => stats'.requests = stats.requests + 1]_vars
  /\ [][/\ stats'.cache_hits >= stats.cache_hits
        /\ stats'.failed_requests >= stats.failed_requests
        /\ call'.op # "get_bars" => stats' = stats]_vars
  /\ [][call'.op = "clear_cache" =>
          /\ pcache' = <<>>
          /\ cache_timestamps' = <<>>
          /\ stats' = stats]_vars
  /\ [](/\ stats.cache_hits <= stats.requests
        /\ stats.cache_hits + stats.failed_requests <= stats.requests
        /\ LET r == GetCacheStats(pcache, stats).hit_ratio
           IN  /\ r.num = stats.cache_hits
               /\ r.den = (IF stats.requests = 0 THEN 1 ELSE stats.requests)
               /\ stats.requests = 0 => r.num = 0)

\* a clear after a hit: the cache is empty, the counters are as before
C33_Witness ==
  /\ call.op = "clear_cache"
  /\ pcache = <<>>
  /\ stats.cache_hits = 1
  /\ stats.requests = 2
  /\ GetCacheStats(pcache, stats).hit_ratio = [num |-> 1, den |-> 2]

\* C40: a get_bars call that missed and whose fetch raised or returned {}
\* leaves every entry and every entry timestamp as it was, and a call
\* with the same key right after it runs the fetch again.
C40_FailedFetchStoresNothing ==
  /\ [][(call'.op = "get_bars" /\ call'.result \in {"raise", "empty"}) =>
          /\ pcache' = pcache
          /\ cache_timestamps' = cache_timestamps]_vars
  /\ [][(/\ call.op = "get_bars"
         /\ call.result \in {"raise", "empty"}
         /\ call'.op = "get_bars"
         /\ call'.key = call.key
         /\ stats' # stats) =>
          (call'.fetched /\ ~call'.hit)]_vars

\* the second of two calls with the same key, the first of which got {}
C40_Witness ==
  /\ call.op = "get_bars"
  /\ stats.requests = 2
  /\ call.fetched
  /\ ~call.had
  /\ Len(objects) = 2
  /\ ~objects[1].truthy
  /\ CacheKey(objects[1].symbols, objects[1].timeframe, objects[1].limit)
       = call.key
  /\ stats.failed_requests = 0

(***************************************************************************)
(* MarketDataFetcher._standardize_dataframe on one table.  A table is its  *)
(* kind of index, whether it has all of open, high, low, close, volume, and *)
(* the timestamps of its rows in the order of the rows.  The kinds of      *)
(* index are                                                               *)
(*   "naive", "utc", "aware": a DatetimeIndex without a timezone, in UTC,  *)
(*       in another timezone;                                              *)
(*   "column": another index, and a timestamp column that converts;        *)
(*   "unnamed": an index of numbers without a name and no timestamp        *)
(*       column: reset_index() makes it a column called index, and         *)
(*       pd.to_datetime reads its numbers as nanoseconds since 1970;       *)
(*   "named": an index with another name and no timestamp column;          *)
(*   "unparseable": a timestamp column that pd.to_datetime rejects.        *)
(***************************************************************************)
\* the longest table, and the latest timestamp
MaxRows == 3

IndexKinds ==
  {"naive", "utc", "aware", "column", "unnamed", "named", "unparseable"}

\* isinstance(df.index, pd.DatetimeIndex)
IsDatetimeIndex(df) == df.index \in {"naive", "utc", "aware"}

\* ts_col after df.reset_index(): is there a timestamp or an index column
HasTsCol(df) == df.index \in {"column", "unnamed", "unparseable"}

RECURSIVE SeqsUpTo(_, _)
SeqsUpTo(S, n) ==
  IF n = 0 THEN {<<>>}
  ELSE LET shorter == SeqsUpTo(S, n - 1)
       IN  shorter \cup {Append(q, x) : q \in shorter, x \in S}

\* the tables handed to the standardizer
RawTables ==
  {[index |-> i, columns |-> c, rows |-> r] :
     i \in IndexKinds, c \in BOOLEAN, r \in SeqsUpTo(1..MaxRows, MaxRows)}

\* df.sort_index(): the rows in ascending order of timestamp, none dropped
RECURSIVE InsertRow(_, _)
InsertRow(ts, sorted) ==
  IF sorted = <<>> THEN <<ts>>
  ELSE IF ts < Head(sorted) THEN <<ts>> \o sorted
  ELSE <<Head(sorted)>> \o InsertRow(ts, Tail(sorted))

RECURSIVE SortIndex(_)
SortIndex(rows) ==
  IF rows = <<>> THEN <<>>
  ELSE InsertRow(rows[Len(rows)], SortIndex(SubSeq(rows, 1, Len(rows) - 1)))

\* return None
StandardizeFailed(df) ==
  [done |-> TRUE, failed |-> TRUE, rows |-> <<>>, input |-> df]

\* lines 190-199: the else branch ends in return None, or to_datetime raises
NoTimestamp(df) ==
  ~IsDatetimeIndex(df) /\ (~HasTsCol(df) \/ df.index = "unparseable")

\* _standardize_dataframe(df, symbol): the table as passed and the result
Standardize(df) ==
  IF NoTimestamp(df) THEN StandardizeFailed(df)
  ELSE IF ~df.columns THEN StandardizeFailed(df)
  ELSE [done |-> TRUE, failed |-> FALSE, rows |-> SortIndex(df.rows),
        input |-> df]

\* the caller's table after the call: lines 187 and 189 assign df.index of
\* the table passed in; reset_index, set_index, sort_index and the column
\* selection return new tables
CallerTable(df) ==
  IF IsDatetimeIndex(df) THEN [df EXCEPT !.index = "utc"] ELSE df

\* a table is handed to the standardizer
StandardizerInit ==
  /\ TraderInit
  /\ FetcherIdle
  /\ ProviderIdle
  /\ raw \in RawTables
  /\ standardized = NotStandardized
  /\ StrategyIdle
  /\ PaginationIdle
  /\ RetryIdle

\* the call returns
StandardizeDataframe ==
  /\ ~standardized.done
  /\ standardized' = Standardize(raw)
  /\ raw' = CallerTable(raw)
  /\ UNCHANGED <<traderVars, fetcherVars, providerVars, strategyVars,
                 paginationVars, retryVars>>

StandardizerNext == StandardizeDataframe

StandardizerSpec == StandardizerInit /\ [][StandardizerNext]_vars

\* C20: for a table with the required columns and a usable timestamp index
\* or column the standardizer's output is in ascending order of timestamp,
\* holds no timestamp twice, and has at most as many rows as the input.
C20_StandardizedSortedUnique ==
  (standardized.done /\ standardized.input.columns
     /\ ~NoTimestamp(standardized.input)) =>
    /\ ~standardized.failed
    /\ Len(standardized.rows) <= Len(standardized.input.rows)
    /\ \A i \in 1..Len(standardized.rows), j \in 1..Len(standardized.rows) :
         i < j => standardized.rows[i] < standardized.rows[j]

\* C21: a table that lacks one of open, high, low, close, volume, or that
\* has neither a datetime index nor a timestamp column, makes the
\* standardizer return None: no row is produced.
C21_MalformedTableFails ==
  (standardized.done
     /\ (~standardized.input.columns
           \/ standardized.input.index \in {"unnamed", "named"})) =>
    /\ standardized.failed
    /\ standardized.rows = <<>>

\* C22: after the call the table passed in is what it was before the call.
C22_InputUnchanged == standardized.done => raw = standardized.input

(***************************************************************************)
(* MAStrategy (bot/strategy.py) on one well-formed bar series.  A series   *)
(* is the sequence of its closes, oldest first.  A rolling mean is kept as *)
(* the sum of its window, so that two means are compared exactly:          *)
(* s / short_window <= l / long_window iff s * long_window <=              *)
(* l * short_window.  stop_loss is kept in hundredths of the price unit.   *)
(***************************************************************************)
\* self.short_window and self.long_window, and the longest series
ShortWindow == 2
LongWindow == 3
MaxCloses == 5

\* "stop_loss": current_price * 0.95, in hundredths
StopLossPct == 95

ClosePrices == 1..3
Series == SeqsUpTo(ClosePrices, MaxCloses)

RECURSIVE Sum(_)
Sum(q) == IF q = <<>> THEN 0 ELSE Head(q) + Sum(Tail(q))

\* a rolling mean that is defined from the first row on
RollingPartial(close, window, back) ==
  LET last == Len(close) - back
  IN  [nan |-> last < 1,
       sum |-> IF last < 1 THEN 0
               ELSE Sum(SubSeq(close, Max(1, last - window + 1), last)),
       window |-> IF last < 1 THEN window ELSE Min(window, last)]

\* df['close'].rolling(window=window).mean().iloc[-1 - back]: NaN for the
\* first window - 1 rows
Rolling(close, window, back) ==
  LET last == Len(close) - back
  IN  [nan |-> last < window,
       sum |-> IF last < window THEN 0
               ELSE Sum(SubSeq(close, last - window + 1, last)),
       window |-> window]

\* a <= b and a > b for two means
MeanLe(a, b) == a.sum * b.window <= b.sum * a.window
MeanGt(a, b) == a.sum * b.window > b.sum * a.window
MeanGe(a, b) == MeanLe(b, a)
MeanLt(a, b) == MeanGt(b, a)

\* calculate_moving_averages returns None: len(data) < self.long_window
InsufficientData(close) == Len(close) < LongWindow

\* null_signal = {"action": None}
NullSignal ==
  [done |-> TRUE, raised |-> FALSE, action |-> "none", has_price |-> FALSE,
   price |-> 0, has_stop |-> FALSE, stop_loss100 |-> 0]

\* the signal dictionaries of the three branches
BuySignal(current_price) ==
  [done |-> TRUE, raised |-> FALSE, action |-> "buy", has_price |-> TRUE,
   price |-> current_price, has_stop |-> TRUE,
   stop_loss100 |-> current_price * StopLossPct]
SellSignal(current_price) ==
  [done |-> TRUE, raised |-> FALSE, action |-> "sell", has_price |-> TRUE,
   price |-> current_price, has_stop |-> FALSE, stop_loss100 |-> 0]
NoCrossover == NullSignal

\* a golden cross that needs the short mean strictly below before
GoldenCrossStrict(prev_short_ma, prev_long_ma, current_short_ma, current_long_ma) ==
  /\ MeanLt(prev_short_ma, prev_long_ma)
  /\ MeanGt(current_short_ma, current_long_ma)

\* prev_short_ma <= prev_long_ma and current_short_ma > current_long_ma
GoldenCross(prev_short_ma, prev_long_ma, current_short_ma, current_long_ma) ==
  /\ MeanLe(prev_short_ma, prev_long_ma)
  /\ MeanGt(current_short_ma, current_long_ma)

\* prev_short_ma >= prev_long_ma and current_short_ma < current_long_ma
DeathCross(prev_short_ma, prev_long_ma, current_short_ma, current_long_ma) ==
  /\ MeanGe(prev_short_ma, prev_long_ma)
  /\ MeanLt(current_short_ma, current_long_ma)

\* analyze with the rolling means it reads
AnalyzeWith(close, current_short_ma, current_long_ma, prev_short_ma, prev_long_ma) ==
  IF InsufficientData(close) \/ Len(close) < 2 THEN NullSignal
  ELSE IF current_short_ma.nan \/ current_long_ma.nan
          \/ prev_short_ma.nan \/ prev_long_ma.nan THEN NullSignal
  ELSE LET current_price == close[Len(close)]
       IN  IF GoldenCross(prev_short_ma, prev_long_ma,
                          current_short_ma, current_long_ma)
             THEN BuySignal(current_price)
           ELSE IF DeathCross(prev_short_ma, prev_long_ma,
                              current_short_ma, current_long_ma)
             THEN SellSignal(current_price)
           ELSE NoCrossover

\* the means analyze takes from calculate_moving_averages
MovingAveragesPartial(close) ==
  [current_short |-> RollingPartial(close, ShortWindow, 0),
   current_long |-> RollingPartial(close, LongWindow, 0),
   prev_short |-> RollingPartial(close, ShortWindow, 1),
   prev_long |-> RollingPartial(close, LongWindow, 1)]

MovingAverages(close) ==
  [current_short |-> Rolling(close, ShortWindow, 0),
   current_long |-> Rolling(close, LongWindow, 0),
   prev_short |-> Rolling(close, ShortWindow, 1),
   prev_long |-> Rolling(close, LongWindow, 1)]

\* MAStrategy.analyze(symbol, data)
AnalyzeMA(close) ==
  LET ma == MovingAverages(close)
  IN  AnalyzeWith(close, ma.current_short, ma.current_long,
                  ma.prev_short, ma.prev_long)

\* a series is handed to the strategy
StrategyInit ==
  /\ TraderInit
  /\ FetcherIdle
  /\ ProviderIdle
  /\ StandardizerIdle
  /\ PaginationIdle
  /\ RetryIdle
  /\ closes \in Series
  /\ signal = NotAnalyzed

\* the call returns
Analyze ==
  /\ ~signal.done
  /\ signal' = AnalyzeMA(closes)
  /\ UNCHANGED closes
  /\ UNCHANGED <<traderVars, fetcherVars, providerVars, standardizerVars,
                 paginationVars, retryVars>>

StrategyNext == Analyze

StrategySpec == StrategyInit /\ [][StrategyNext]_vars

\* the mean of a window of w closes that ends back rows before the last,
\* times w
WindowSum(w, back) ==
  Sum(SubSeq(closes, Len(closes) - back - w + 1, Len(closes) - back))

\* all four means are defined
FourMeans == Len(closes) >= Max(ShortWindow, LongWindow) + 1

\* short mean <= long mean, and <, for the windows that end back rows
\* before the last
ShortLe(back) ==
  WindowSum(ShortWindow, back) * LongWindow
    <= WindowSum(LongWindow, back) * ShortWindow
ShortLt(back) ==
  WindowSum(ShortWindow, back) * LongWindow
    < WindowSum(LongWindow, back) * ShortWindow

\* C23: with all four means defined, analyze returns buy at the latest
\* close with stop_loss 0.95 times that close exactly when the short mean
\* was at or below the long mean one bar ago and is above it now, sell
\* without a stop_loss exactly when it was at or above and is below now,
\* and the none action otherwise.
C23_CrossoverRule ==
  (signal.done /\ FourMeans) =>
    LET latest == closes[Len(closes)]
        golden == ShortLe(1) /\ ~ShortLe(0)
        death == ~ShortLt(1) /\ ShortLt(0)
    IN  /\ signal.action = "buy" <=> golden
        /\ signal.action = "sell" <=> death
        /\ signal.action = "none" <=> (~golden /\ ~death)
        /\ signal.action = "buy" =>
             /\ signal.has_price /\ signal.price = latest
             /\ signal.has_stop
             /\ signal.stop_loss100 = StopLossPct * latest
        /\ signal.action = "sell" => ~signal.has_stop
        /\ signal.action \in {"buy", "sell", "none"}

\* a buy after the means were equal one bar ago
C23_Witness ==
  /\ signal.done
  /\ FourMeans
  /\ signal.action = "buy"
  /\ WindowSum(ShortWindow, 1) * LongWindow
       = WindowSum(LongWindow, 1) * ShortWindow

\* C24: for a series of fewer than long_window + 1 bars analyze returns the
\* none action and does not raise.
C24_ShortSeriesGivesNone ==
  (signal.done /\ Len(closes) < LongWindow + 1) =>
    /\ signal.action = "none"
    /\ ~signal.raised
    /\ ~signal.has_price
    /\ ~signal.has_stop

\* a series of exactly long_window bars whose last close is the highest
C24_Witness ==
  /\ signal.done
  /\ Len(closes) = LongWindow
  /\ closes[Len(closes)] > closes[Len(closes) - 1]
  /\ signal.action = "none"

(***************************************************************************)
(* MarketDataFetcher.get_bars, lines 61-114, with its tables row by row:   *)
(* the params dictionary the feed loop carries from feed to feed, the      *)
(* requests of one body of the loop and the table it ends with.  A row is  *)
(* its timestamp and the request that returned it.  The tables are well    *)
(* formed, so the standardizer sorts them and drops no row; the minimum is *)
(* not given and is lookback_bars.  A key that is absent from params is    *)
(* written "" (feed) or 0 (end).                                           *)
(***************************************************************************)
\* the longest page a request returns
MaxPage == 2

\* the lookback_bars of the model: a full page and more than a page
PageLookbacks == {MaxPage, MaxPage + 1}
PageTimeframes == {"1H", "1D"}

Row(ts, origin) == [ts |-> ts, origin |-> origin]

\* the pages a request may return, rows in any order
Pages(origin) ==
  {[i \in DOMAIN q |-> Row(q[i], origin)] : q \in SeqsUpTo(1..MaxRows, MaxPage)}

\* what self.client.get_bars(symbol, **params) may do, row by row
PageResults(origin) ==
  {[kind |-> k, n |-> 0, rows |-> <<>>] : k \in {"raise", "none", "empty"}}
    \cup {[kind |-> "table", n |-> Len(r), rows |-> r] :
            r \in Pages(origin) \ {<<>>}}

\* params = {'limit': min(1000, lookback_bars), 'timeframe': timeframe}
InitialParams(lookback_bars, timeframe) ==
  [limit |-> Limit(lookback_bars), timeframe |-> timeframe, feed |-> "",
   end |-> 0]

\* a loop that sets the feed and never deletes it
SetFeedKeepsLeftover(params, feed) ==
  IF feed # "default" THEN [params EXCEPT !.feed = feed] ELSE params

\* if feed: params['feed'] = feed; elif 'feed' in params: del params['feed']
SetFeed(params, feed) ==
  IF feed # "default" THEN [params EXCEPT !.feed = feed]
  ELSE [params EXCEPT !.feed = ""]

\* oldest_ts = bars_df.index.min()
OldestTs(rows) ==
  CHOOSE t \in {rows[i].ts : i \in DOMAIN rows} :
    \A j \in DOMAIN rows : t <= rows[j].ts

\* pagination_params = params.copy(); pagination_params['end'] = oldest_ts
PaginationParams(params, oldest_ts) == [params EXCEPT !.end = oldest_ts]

\* bars_df[~bars_df.index.duplicated(keep='first')]
RECURSIVE KeepFirst(_, _)
KeepFirst(rows, seen) ==
  IF rows = <<>> THEN <<>>
  ELSE IF Head(rows).ts \in seen THEN KeepFirst(Tail(rows), seen)
  ELSE <<Head(rows)>> \o KeepFirst(Tail(rows), seen \cup {Head(rows).ts})

DropDuplicated(rows) == KeepFirst(rows, {})

\* lines 69-114 for one feed: the requests sent and the table bars_df
PageBody(params0, feed, lookback_bars, first, more) ==
  LET params == SetFeed(params0, feed)
      paginates == NeedsPagination(first, lookback_bars)
  IN  [params    |-> params,
       feed      |-> feed,
       sent      |-> IF paginates
                       THEN <<params,
                              PaginationParams(params, OldestTs(first.rows))>>
                       ELSE <<params>>,
       initial   |-> first.rows,
       more      |-> IF paginates THEN more.kind ELSE "",
       more_rows |-> IF paginates THEN more.rows ELSE <<>>,
       raised    |-> first.kind = "raise" \/ (paginates /\ more.kind = "raise"),
       bars_df   |-> IF paginates /\ more.kind = "table"
                       THEN DropDuplicated(more.rows \o first.rows)
                       ELSE first.rows]

PaginationFrame ==
  UNCHANGED <<traderVars, fetcherVars, providerVars, standardizerVars,
              strategyVars, retryVars>>

\* get_bars is entered: lines 58-65
PageGetBars ==
  /\ page.pc = "idle"
  /\ \E lookback_bars \in PageLookbacks, timeframe \in PageTimeframes :
       page' = [NoPage EXCEPT !.pc = "loop",
                              !.lookback_bars = lookback_bars,
                              !.timeframe = timeframe,
                              !.params = InitialParams(lookback_bars, timeframe)]
  /\ PaginationFrame

\* one iteration of for feed in feeds_to_try: it returns the series when
\* the table has lookback_bars rows, and goes on with the next feed
\* otherwise
PageFeedBody ==
  /\ page.pc = "loop"
  /\ page.feedIdx <= Len(FeedsToTry)
  /\ \E first \in PageResults("initial"), more \in PageResults("supplemental") :
       LET b == PageBody(page.params, FeedsToTry[page.feedIdx],
                         page.lookback_bars, first, more)
           returns == /\ ~b.raised
                      /\ b.bars_df # <<>>
                      /\ Sufficient(Len(b.bars_df), page.lookback_bars)
       IN  page' = [pc |-> IF returns THEN "returned" ELSE "loop",
                    lookback_bars |-> page.lookback_bars,
                    timeframe |-> page.timeframe,
                    feedIdx |-> IF returns THEN page.feedIdx
                                ELSE page.feedIdx + 1,
                    params |-> b.params, feed |-> b.feed, sent |-> b.sent,
                    initial |-> b.initial, more |-> b.more,
                    more_rows |-> b.more_rows, bars_df |-> b.bars_df,
                    raised |-> b.raised]
  /\ PaginationFrame

\* line 168: every feed failed, the call goes on in _try_timeframe_fallbacks
PageFallback ==
  /\ page.pc = "loop"
  /\ page.feedIdx > Len(FeedsToTry)
  /\ page' = [page EXCEPT !.pc = "fallback", !.sent = <<>>, !.feed = "",
                          !.initial = <<>>, !.more = "", !.more_rows = <<>>,
                          !.bars_df = <<>>, !.raised = FALSE]
  /\ PaginationFrame

PaginationNext ==
  \/ PageGetBars
  \/ PageFeedBody
  \/ PageFallback

PaginationSpec == Init /\ [][PaginationNext]_vars

\* the timestamps of a table, and the first row of a table with a timestamp
Timestamps(rows) == {rows[i].ts : i \in DOMAIN rows}
FirstAt(rows, ts) ==
  CHOOSE i \in DOMAIN rows :
    rows[i].ts = ts /\ \A j \in 1..(i - 1) : rows[j].ts # ts

\* C35: the first request of a feed carries limit, timeframe and the feed,
\* and no feed for the default feed; the supplemental request carries the
\* same limit, timeframe and feed, and as end the oldest timestamp of the
\* initial page; when it returns rows, the table is the rows of the
\* supplemental page followed by those of the initial page, with each
\* timestamp of either page once and, for a timestamp of both, the row of
\* the supplemental page; when it returns nothing, the table is the
\* initial page.
C35_PaginationRequestAndMerge ==
  page.sent # <<>> =>
    /\ page.sent[1] =
         [limit |-> Min(1000, page.lookback_bars),
          timeframe |-> page.timeframe,
          feed |-> IF page.feed = "default" THEN "" ELSE page.feed,
          end |-> 0]
    /\ Len(page.sent) = 2 =>
         /\ page.sent[2].limit = page.sent[1].limit
         /\ page.sent[2].timeframe = page.sent[1].timeframe
         /\ page.sent[2].feed = page.sent[1].feed
         /\ page.sent[2].end \in Timestamps(page.initial)
         /\ \A t \in Timestamps(page.initial) : page.sent[2].end <= t
    /\ (Len(page.sent) = 2 /\ page.more = "table") =>
         LET out == page.bars_df
             older == page.more_rows
             origin(t) == IF t \in Timestamps(older) THEN "supplemental"
                          ELSE "initial"
             source(t) == IF t \in Timestamps(older) THEN older
                          ELSE page.initial
         IN  /\ Timestamps(out) =
                  Timestamps(older) \cup Timestamps(page.initial)
             /\ \A i, j \in DOMAIN out :
                  i < j =>
                    /\ out[i].ts # out[j].ts
                    /\ out[i].origin = "initial" => out[j].origin = "initial"
                    /\ out[i].origin = out[j].origin =>
                         FirstAt(source(out[i].ts), out[i].ts)
                           < FirstAt(source(out[j].ts), out[j].ts)
             /\ \A i \in DOMAIN out : out[i].origin = origin(out[i].ts)
    /\ (Len(page.sent) = 2 /\ page.more \in {"none", "empty"}) =>
         page.bars_df = page.initial

\* a supplemental request to the default feed, after sip, whose page shares
\* a timestamp with the initial page
C35_Witness ==
  /\ page.feed = "default"
  /\ Len(page.sent) = 2
  /\ page.more = "table"
  /\ Timestamps(page.more_rows) \cap Timestamps(page.initial) # {}
  /\ Timestamps(page.initial) \ Timestamps(page.more_rows) # {}
  /\ page.pc = "returned"

(***************************************************************************)
(* AlpacaClient.retry_api_call (utils/api.py) on one unit of work.  An     *)
(* invocation of the unit of work raises an Exception or returns a value;  *)
(* max_retries = None is written 0.  A wait is the argument of             *)
(* time.sleep, in seconds.                                                 *)
(***************************************************************************)
\* MAX_RETRIES and RETRY_DELAY_BASE, the defaults of the constructor
MAX_RETRIES == 3
RETRY_DELAY_BASE == 2

\* the largest max_retries argument of the model
MaxRetriesArg == 4

\* self.max_retries and self.retry_delay_base as the constructor got them,
\* the max_retries argument, and what the unit of work may return
ClientMaxRetries == {0, 1, MAX_RETRIES}
ClientDelayBases == {1, RETRY_DELAY_BASE, RETRY_DELAY_BASE + 1}
MaxRetriesArgs == {0, 1, 2, MaxRetriesArg}
Values == {1, 2, 3}

RECURSIVE Pow(_, _)
Pow(b, n) == IF n = 0 THEN 1 ELSE b * Pow(b, n - 1)

\* max_retries = max_retries or self.max_retries
ResolveMaxRetries(max_retries, self_max_retries) ==
  IF max_retries # 0 THEN max_retries ELSE self_max_retries

\* if retry_count == max_retries - 1
IsLastAttempt(retry_count, max_retries) == retry_count = max_retries - 1

\* a backoff that starts at the base
WaitTimeFromBase(retry_delay_base, retry_count) ==
  Pow(retry_delay_base, retry_count + 1)

\* wait_time = self.retry_delay_base ** retry_count
WaitTime(retry_delay_base, retry_count) == Pow(retry_delay_base, retry_count)

RetryFrame ==
  UNCHANGED <<traderVars, fetcherVars, providerVars, standardizerVars,
              strategyVars, paginationVars>>

\* retry_api_call(func, max_retries) is entered: line 80
RetryApiCall ==
  /\ retry.pc = "idle"
  /\ \E max_retries \in MaxRetriesArgs, self_max_retries \in ClientMaxRetries,
        retry_delay_base \in ClientDelayBases :
       retry' = [NoRetry EXCEPT
                   !.pc = "loop",
                   !.max_retries =
                     ResolveMaxRetries(max_retries, self_max_retries),
                   !.retry_delay_base = retry_delay_base]
  /\ RetryFrame

\* one iteration of for retry_count in range(max_retries): lines 83-99
RetryAttempt ==
  /\ retry.pc = "loop"
  /\ retry.retry_count < retry.max_retries
  /\ \/ \E v \in Values :
          retry' = [retry EXCEPT !.pc = "returned",
                                 !.outcomes = Append(@, "ok"),
                                 !.ret = "result",
                                 !.result = v,
                                 !.expected = v]
     \/ /\ IsLastAttempt(retry.retry_count, retry.max_retries)
        /\ retry' = [retry EXCEPT !.pc = "returned",
                                  !.outcomes = Append(@, "raise"),
                                  !.ret = "none"]
     \/ /\ ~IsLastAttempt(retry.retry_count, retry.max_retries)
        /\ retry' = [retry EXCEPT
                       !.outcomes = Append(@, "raise"),
                       !.waits = Append(@, WaitTime(retry.retry_delay_base,
                                                    retry.retry_count)),
                       !.retry_count = @ + 1]
  /\ RetryFrame

\* the range is exhausted: line 101
RetryLoopEnds ==
  /\ retry.pc = "loop"
  /\ retry.retry_count >= retry.max_retries
  /\ retry' = [retry EXCEPT !.pc = "returned", !.ret = "none"]
  /\ RetryFrame

RetryNext ==
  \/ RetryApiCall
  \/ RetryAttempt
  \/ RetryLoopEnds

RetrySpec == Init /\ [][RetryNext]_vars

\* C34: the unit of work is invoked at most max_retries times, and only
\* the last invocation may have returned; its value is then the result of
\* the call.  There is one wait for each failed invocation that was not the
\* last one allowed, the wait after the failed invocation of index i (from
\* 0) being retry_delay_base^i; when the last one allowed has failed the
\* call returns None without another wait, and the call never raises.
C34_RetryWithBackoff ==
  LET n == Len(retry.outcomes)
      failed == {i \in 1..n : retry.outcomes[i] = "raise"}
  IN  /\ n <= Max(0, retry.max_retries)
      /\ \A i \in 1..(n - 1) : retry.outcomes[i] = "raise"
      /\ retry.ret \in {"pending", "result", "none"}
      /\ retry.ret = "pending" <=> retry.pc # "returned"
      /\ retry.ret = "result" <=> (n >= 1 /\ retry.outcomes[n] = "ok")
      /\ retry.ret = "result" => retry.result = retry.expected
      /\ Len(retry.waits) =
           Cardinality({i \in failed : i < retry.max_retries})
      /\ \A i \in 0..(Len(retry.waits) - 1) :
           retry.waits[i + 1] = Pow(retry.retry_delay_base, i)
      /\ retry.ret = "none" =>
           /\ n = Max(0, retry.max_retries)
           /\ failed = 1..n
           /\ Len(retry.waits) = Max(0, retry.max_retries - 1)
      /\ retry.pc = "loop" =>
           (n = retry.retry_count /\ Len(retry.waits) = n)

\* three failed invocations with the default settings: waits of 1 and 2
\* seconds, and None
C34_Witness ==
  /\ retry.pc = "returned"
  /\ retry.ret = "none"
  /\ retry.max_retries = MAX_RETRIES
  /\ retry.outcomes = <<"raise", "raise", "raise">>
  /\ retry.waits = <<1, RETRY_DELAY_BASE>>

=============================================================================
